---- MODULE Spec2Model ----
(***************************************************************************)
(* A model of the transfer front-ends of iMA-Menu-Plugins: the yt-dlp      *)
(* downloader variants (YT), the croc receiver (iMShare/download.pyw) and  *)
(* the croc sender (the upload tool).  Every tool is a Qt main window that *)
(* starts worker threads; a worker's signals are queued to the main        *)
(* thread and handled there one at a time, in the order they were posted.  *)
(* Each tool has its own specification over its own variables; the         *)
(* variables of the other tools are left unchanged.                        *)
(***************************************************************************)
EXTENDS Integers, Sequences, FiniteSets, TLC

VARIABLES
    \* ---- Resize/resize.pyw: AnimationWindow and its ResizeWorkers
    rs_argv,                \* sys.argv[1:]
    rs_pc,                  \* main thread: "start" | "running" | "waiting" | "exited"
    rs_fs,                  \* the paths that exist
    rs_all_file_paths,      \* AnimationWindow.all_file_paths
    rs_pending_file_paths,  \* AnimationWindow.pending_file_paths
    rs_workers,             \* every ResizeWorker created: file_path and thread state
    rs_active_workers,      \* AnimationWindow.active_workers (indices of rs_workers)
    rs_total_processed_count, \* AnimationWindow.total_processed_count
    rs_events,              \* finished emissions queued to the main thread
    rs_anim,                \* anim_group is running
    rs_timers,              \* delays of the QTimer.singleShot(.., quit) calls
    rs_runs,                \* what each ResizeWorker.run did
    rs_wait,                \* the worker that worker.wait() blocks on (0 = none)
    \* ---- handle_instance_check of instances that start together
    icr_lock,               \* content of the lock file ("absent" = no file)
    icr_alive,              \* PIDs of the running instances of the tool
    icr_pc,                 \* instance -> where it is in handle_instance_check
    icr_pid,                \* instance -> the local variable pid
    \* ---- one item of the YT downloader variants (library, pre-flight)
    fin_variant,            \* "library" | "preflight"
    pf_formats,             \* the streams to download: metadata and real size
    fin_fetcher,            \* the item's ThumbnailFetcher: "none" | "extract_info" | "thumbnail" | "ended"
    fin_pc,                 \* "preflight" | "none" | "start" | "downloading" | "running" | "postprocessing" | "ended"
    pf_thread,              \* DownloadThread: total_combined_size, video_bytes, audio_bytes
    pf_stream,              \* number of the stream being downloaded
    pf_downloaded,          \* bytes of that stream downloaded so far
    fin_pp,                 \* postprocessors that have finished
    fin_files,              \* the paths for which os.path.isfile holds
    fin_events,             \* signals of the item's threads queued to the main thread
    fin_downloaded_files,   \* MainWindow.downloaded_files[item_id] ("None": no entry)
    fin_status,             \* status text of the item's widget
    fin_error,              \* an error was reported for the item
    fin_succeeded,          \* yt-dlp has ended the whole download well
    pf_progress,            \* the last argument of the widget's set_progress
    \* ---- the drawing overlay (DrawingApp with the image buffer)
    dr_image,               \* self.image: the painted pixels
    dr_displayed,           \* the picture _update_canvas put on the canvas
    dr_action_history,      \* deque of pictures
    dr_redo_history,        \* deque of pictures
    dr_is_drawing,
    dr_start_coords,        \* 0: None
    dr_erase_mode,
    dr_drawing_tool,
    dr_log,                 \* the last two completed handlers, see dr_logged
    dr_actions,             \* how many handlers were logged
    dr_pressed,             \* the picture on the canvas at the last <Button-1>
    \* ---- subprocess-based YT downloader (CommandExecutor + DownloadQueue)
    ytc_exec,               \* item id -> state of its CommandExecutor
    ytc_queue,              \* DownloadQueue.queue
    ytc_running_downloads,  \* DownloadQueue.running_downloads
    ytc_events,             \* finished_signal emissions queued to the main thread
    ytc_last,               \* what the last DownloadQueue.start_download did
    \* ---- YT/yt.pyw (yt_dlp library, DownloadThread)
    yt_url_entry,           \* text of MainWindow.url_entry
    yt_current_preview_url, \* MainWindow.current_preview_url ("None" when None)
    yt_current_preview_info,\* MainWindow.current_preview_info ("" when {})
    yt_title_label,         \* text of MainWindow.title_label
    yt_previews,            \* url -> number of preview ThumbnailFetchers in extract_info
    yt_thumbnails,          \* url -> number of preview ThumbnailFetchers in urlopen(thumbnail_url)
    yt_item_counter,        \* MainWindow.item_counter
    yt_item_fetch,          \* item id -> url its ThumbnailFetcher fetches ("" = none)
    yt_thread,              \* item id -> state of its DownloadThread
    yt_download_queue,      \* MainWindow.download_queue (a DownloadQueue)
    \* ---- iMShare/download.pyw: DownloadWorker.parse_output_line on one line
    dlp_pc,                 \* "idle" | "ready" (line read) | "parsed"
    dlp_input,              \* what croc printed: the fields of the line
    dlp_line,               \* the line as readline() returned it
    dlp_exists,             \* answer of the file system to os.path.isdir/exists
    dlp_worker,             \* the DownloadWorker's fields
    dlp_signals,            \* signals emitted by parse_output_line, in order
    \* ---- iMShare/download.pyw: MainWindow and its DownloadWorkers
    dl_path_entry,          \* text of MainWindow.path_entry
    dl_download_code,       \* MainWindow.download_code
    dl_is_sending,          \* MainWindow.is_sending
    dl_file_queue,          \* MainWindow.file_queue
    dl_uuid,                \* number of queue ids drawn from uuid.uuid4()
    dl_queue_item_widgets,  \* queue id -> state of its entry in the queue list
    dl_max_thread_count,    \* QThreadPool.maxThreadCount()
    dl_worker,              \* worker number -> the DownloadWorker
    dl_events,              \* finished_signal emissions queued to the main thread
    \* ---- upload tool: SendFileThread._handle_uploading on croc's progress lines
    upp_thread,             \* the SendFileThread's fields
    upp_match,              \* groups of the last progress line matched
    upp_signals,            \* signals emitted for that line, in order
    \* ---- upload tool: MainWindow and its SendFileThreads
    up_code,                \* MainWindow.code ("None" when None)
    up_timer,               \* QTimer.singleShot(100, self.start_next_transfer) pending
    up_is_sending,          \* MainWindow.is_sending
    up_file_queue,          \* MainWindow.file_queue (queue ids)
    up_uuid,                \* number of queue ids drawn from uuid.uuid4()
    up_item,                \* queue id -> what became of the file
    up_thread,              \* queue id -> the SendFileThread made for it
    up_active_threads,      \* MainWindow.active_threads
    up_events,              \* signals of the threads queued to the main thread
    up_status_label,        \* text of MainWindow.status_label
    up_progress_bar,        \* value of MainWindow.progress_bar
    up_dot_animation,       \* dot_animation_timer is active
    up_current_status_message, \* MainWindow.current_status_message
    up_dot_count,           \* MainWindow.dot_count
    up_clear_message_timer, \* clear_message_timer is active
    up_lines,               \* queue id -> lines its thread has read from croc
    up_closed,              \* queue ids whose transfer was completed or cancelled
    up_main,                \* where the main thread is: in its event loop or in clear_all
    \* ---- iMShare: the tool this process runs
    sh_tool,                \* "download" (download.pyw) | "upload"
    \* ---- iMShare: handle_instance_check of one tool, over several startups
    ic_lock,                \* text of the tool's lock file ("absent": no file)
    ic_alive,               \* PIDs of the tool's instances that are alive
    ic_foreign,             \* PIDs of the other processes that are alive
    ic_newest,              \* PID of the instance started last (0: none yet)
    ic_started,             \* number of instances started so far
    ic_pc,                  \* PID -> where its instance is in handle_instance_check
    ic_pid,                 \* PID -> the local variable pid of its instance
    ic_overlapped,          \* an instance was started while another was in its check
    \* ---- Imgur uploader: ImgurUploader and its ImageUploadWorker
    im_clipboard,           \* text of the system clipboard
    im_exists,              \* answer of the file system to os.path.exists
    im_image_path,          \* ImgurUploader.image_path ("None" when None)
    im_timers,              \* QTimer.singleShot calls pending, by slot
    im_visible,             \* the ImgurUploader window is shown
    im_status_shown,        \* upload_status_label is shown
    im_worker,              \* "idle" | "running" | "finished"
    im_response,            \* how the upload went for the worker
    im_events,              \* finished_signal emissions queued to the main thread
    im_copied,              \* texts given to pyperclip.copy, in order
    \* ---- upload tool: SendFileThread.parse_output_line on one line
    upl_pc,                 \* "ready" (line read) | "parsed"
    upl_line,               \* the line as readline() returned it
    upl_thread,             \* the SendFileThread's fields
    upl_handler,            \* the _handle_ method parse_output_line called
    upl_signals,            \* signals emitted by parse_output_line, in order
    \* ---- Organize (simple.bat)
    org_args,               \* the arguments not yet shifted away: %1, %2, ...
    org_pc,                 \* "start" | "loop" | "done"
    org_parentDir,          \* the variable parentDir
    org_files,              \* the files that exist, by full path
    org_dirs,               \* the directories that exist, each ending in "\"
    org_log                 \* what was done with each argument, in order

ytcVars == <<ytc_exec, ytc_queue,
             ytc_running_downloads, ytc_events, ytc_last>>

ytVars == <<yt_url_entry, yt_current_preview_url, yt_current_preview_info, yt_title_label,
            yt_previews, yt_thumbnails, yt_item_counter, yt_item_fetch, yt_thread,
            yt_download_queue>>

dlpVars == <<dlp_pc, dlp_input, dlp_line, dlp_exists, dlp_worker, dlp_signals>>

dlVars == <<dl_path_entry, dl_download_code, dl_is_sending, dl_file_queue, dl_uuid,
            dl_queue_item_widgets, dl_max_thread_count, dl_worker, dl_events>>

uppVars == <<upp_thread, upp_match, upp_signals>>

upVars == <<up_code, up_timer, up_is_sending, up_file_queue, up_uuid, up_item, up_thread,
           up_active_threads, up_events, up_status_label, up_progress_bar,
           up_dot_animation, up_current_status_message, up_dot_count, up_clear_message_timer, up_lines, up_closed, up_main>>

shVars == <<sh_tool>>

icVars == <<ic_lock, ic_alive, ic_foreign, ic_newest, ic_started, ic_pc, ic_pid,
           ic_overlapped>>

imVars == <<im_clipboard, im_exists, im_image_path, im_timers, im_visible,
            im_status_shown, im_worker, im_response, im_events, im_copied>>

uplVars == <<upl_pc, upl_line, upl_thread, upl_handler, upl_signals>>

orgVars == <<org_args, org_pc, org_parentDir, org_files, org_dirs, org_log>>

rsVars == <<rs_argv, rs_pc, rs_fs, rs_all_file_paths, rs_pending_file_paths, rs_workers,
           rs_active_workers, rs_total_processed_count, rs_events, rs_anim, rs_timers,
           rs_runs, rs_wait>>

icrVars == <<icr_lock, icr_alive, icr_pc, icr_pid>>

finVars == <<fin_variant, pf_formats, fin_fetcher, fin_pc, pf_thread, pf_stream, pf_downloaded,
            fin_pp, fin_files, fin_events, fin_downloaded_files, fin_status, fin_error,
            fin_succeeded, pf_progress>>

drVars == <<dr_image, dr_displayed, dr_action_history, dr_redo_history, dr_is_drawing,
           dr_start_coords, dr_erase_mode, dr_drawing_tool, dr_log, dr_actions, dr_pressed>>

vars == <<ytcVars, ytVars, dlpVars, dlVars, uppVars, upVars, shVars, icVars, imVars,
          uplVars, orgVars, rsVars, icrVars, finVars, drVars>>

\* The variables of the other tools, for each tool.
notYTC == <<ytVars, dlpVars, dlVars, uppVars, upVars, shVars, icVars, imVars, uplVars, orgVars, rsVars, icrVars, finVars, drVars>>
notYT == <<ytcVars, dlpVars, dlVars, uppVars, upVars, shVars, icVars, imVars, uplVars, orgVars, rsVars, icrVars, finVars, drVars>>
notDLP == <<ytcVars, ytVars, dlVars, uppVars, upVars, shVars, icVars, imVars, uplVars, orgVars, rsVars, icrVars, finVars, drVars>>
notDL == <<ytcVars, ytVars, dlpVars, uppVars, upVars, shVars, icVars, imVars, uplVars, orgVars, rsVars, icrVars, finVars, drVars>>
notUPP == <<ytcVars, ytVars, dlpVars, dlVars, upVars, shVars, icVars, imVars, uplVars, orgVars, rsVars, icrVars, finVars, drVars>>
notUP == <<ytcVars, ytVars, dlpVars, dlVars, uppVars, shVars, icVars, imVars, uplVars, orgVars, rsVars, icrVars, finVars, drVars>>
notSH == <<ytcVars, ytVars, dlpVars, dlVars, uppVars, upVars, icVars, imVars, uplVars, orgVars, rsVars, icrVars, finVars, drVars>>
notIC == <<ytcVars, ytVars, dlpVars, dlVars, uppVars, upVars, shVars, imVars, uplVars, orgVars, rsVars, icrVars, finVars, drVars>>
notIM == <<ytcVars, ytVars, dlpVars, dlVars, uppVars, upVars, shVars, icVars, uplVars, orgVars, rsVars, icrVars, finVars, drVars>>
notUPL == <<ytcVars, ytVars, dlpVars, dlVars, uppVars, upVars, shVars, icVars, imVars, orgVars, rsVars, icrVars, finVars, drVars>>
notORG == <<ytcVars, ytVars, dlpVars, dlVars, uppVars, upVars, shVars, icVars, imVars,
            uplVars, rsVars, icrVars, finVars, drVars>>
notRS == <<ytcVars, ytVars, dlpVars, dlVars, uppVars, upVars, shVars, icVars, imVars,
           uplVars, orgVars, icrVars, finVars, drVars>>
notICR == <<ytcVars, ytVars, dlpVars, dlVars, uppVars, upVars, shVars, icVars, imVars,
            uplVars, orgVars, rsVars, finVars, drVars>>
notFIN == <<ytcVars, ytVars, dlpVars, dlVars, uppVars, upVars, shVars, icVars, imVars,
            uplVars, orgVars, rsVars, icrVars, drVars>>
notDR == <<ytcVars, ytVars, dlpVars, dlVars, uppVars, upVars, shVars, icVars, imVars,
           uplVars, orgVars, rsVars, icrVars, finVars>>

(***************************************************************************)
(* Generic helpers                                                         *)
(***************************************************************************)
Range(s) == {s[k] : k \in 1..Len(s)}

(***************************************************************************)
(* Text: a Python str is a TLA+ string, a character a string of length 1.  *)
(***************************************************************************)
CharAt(s, i) == SubSeq(s, i, i)

Digits == <<"0", "1", "2", "3", "4", "5", "6", "7", "8", "9">>

IsDigit(ch) == \E d \in 1..10 : Digits[d] = ch

IsSpace(ch) == ch \in {" ", "\t", "\n", "\r"}

DigitVal(ch) == (CHOOSE d \in 1..10 : Digits[d] = ch) - 1

RECURSIVE ParseInt(_)
ParseInt(s) ==
    IF Len(s) = 0 THEN 0
    ELSE 10 * ParseInt(SubSeq(s, 1, Len(s) - 1)) + DigitVal(CharAt(s, Len(s)))

RECURSIVE IntToStr(_)
IntToStr(n) == IF n < 10 THEN Digits[n + 1] ELSE IntToStr(n \div 10) \o Digits[(n % 10) + 1]

\* The element of a set of one element.  An operator's arguments are
\* evaluated where its body first needs them; {f(x) : x \in {e}} evaluates e
\* before f, which keeps the evaluation of nested calls shallow.
Only(S) == CHOOSE x \in S : TRUE

\* ---- regular expressions: a pattern is a sequence of atoms
LitCh(ch) == [k |-> "lit", ch |-> ch, q |-> "1"]
AnyCh(q) == [k |-> "any", ch |-> "", q |-> q]
DigCh(q) == [k |-> "digit", ch |-> "", q |-> q]
SpcCh(q) == [k |-> "space", ch |-> "", q |-> q]
Lits(s) == [j \in 1..Len(s) |-> LitCh(CharAt(s, j))]
\* (?: ... )? around the atoms that follow, up to the atom number `to`, which
\* is its OptEnd
\* a literal text of any length
StrLit(s) == [k |-> "str", ch |-> s, q |-> "1"]
\* [^c]
NotCh(ch, q) == [k |-> "not", ch |-> ch, q |-> q]
OptBegin(to) == [k |-> "opt", ch |-> "", q |-> "?", to |-> to]
OptEnd == [k |-> "end", ch |-> "", q |-> "1"]

InClass(a, ch) ==
    CASE a.k = "lit" -> ch = a.ch
      [] a.k = "any" -> ch # "\n"
      [] a.k = "digit" -> IsDigit(ch)
      [] a.k = "space" -> IsSpace(ch)
      [] a.k = "not" -> ch # a.ch

\* How many characters from s[i] on are in the class of a, up to cap
RunStop(a, s, i, m) == {j \in 0..(m - 1) : ~InClass(a, CharAt(s, i + j))}
RunMin(stops, m) == IF stops = {} THEN m ELSE CHOOSE j \in stops : \A j2 \in stops : j <= j2
RunLen(a, s, i, cap) ==
    IF i > Len(s) THEN 0
    ELSE IF cap < Len(s) - i + 1 THEN RunMin(RunStop(a, s, i, cap), cap)
    ELSE RunMin(RunStop(a, s, i, Len(s) - i + 1), Len(s) - i + 1)

\* The lengths that atom a can take at s[i] are ReLo(a)..ReHi(a, s, i).
ReLo(a) == IF a.q \in {"*", "*?", "?"} THEN 0 ELSE 1
ReHi(a, s, i) == RunLen(a, s, i, IF a.q \in {"1", "?"} THEN 1 ELSE Len(s))
ReFits(a, s, i) == i + Len(a.ch) - 1 <= Len(s) /\ SubSeq(s, i, i + Len(a.ch) - 1) = a.ch

\* Matching goes over the pattern twice.  From the last atom to the first,
\* ReBack finds for each atom k the positions from which the atoms k.. match
\* (B[k]; every position for k past the last atom).  From the first atom to
\* the last, ReFwd then takes for each atom the first length, in the order
\* in which a backtracking matcher tries them, that leads to a position of
\* B[k + 1]: the longest first, or the shortest first for a lazy atom, and
\* an optional group with the group first.

\* The positions of s that are not in the class of a, and the one past its
\* end; the most that a can take at s[i] is up to the next of them.
ReStops(a, s) == {p \in 1..(Len(s) + 1) : p = Len(s) + 1 \/ ~InClass(a, CharAt(s, p))}
ReRun(a, stops, i) ==
    IF i \in stops THEN 0
    ELSE IF a.q \in {"1", "?"} THEN 1
    ELSE (CHOOSE p \in stops : p > i /\ \A p2 \in stops : p2 > i => p <= p2) - i
ReBackRun(a, s, next, stops) ==
    {i \in 1..(Len(s) + 1) : \E c \in ReLo(a)..ReRun(a, stops, i) : i + c \in next}

\* B[k] from acc = <<B[k + 1], B[k + 2], ...>>
ReBackStep(pat, k, s, acc) ==
    CASE pat[k].k = "opt" -> acc[1] \cup acc[pat[k].to - k + 1]
      [] pat[k].k = "end" -> acc[1]
      [] pat[k].k = "str" ->
            {i \in 1..(Len(s) + 1) : ReFits(pat[k], s, i) /\ i + Len(pat[k].ch) \in acc[1]}
      [] OTHER -> Only({ReBackRun(pat[k], s, acc[1], stops) : stops \in {ReStops(pat[k], s)}})

\* <<B[a], ..., B[b]>> \o acc, from acc = <<B[b + 1], ...>>
RECURSIVE ReBack(_, _, _, _, _)
ReBack(pat, s, a, b, acc) ==
    IF a = b THEN <<ReBackStep(pat, a, s, acc)>> \o acc
    ELSE Only({ReBack(pat, s, a, (a + b) \div 2, right) :
                  right \in {ReBack(pat, s, (a + b) \div 2 + 1, b, acc)}})

ReMax(S) == CHOOSE c \in S : \A d \in S : d <= c
ReMin(S) == CHOOSE c \in S : \A d \in S : c <= d
ReFirst(a, S) == IF a.q \in {"+?", "*?"} THEN ReMin(S) ELSE ReMax(S)

\* Atom k from the state st = [i, skip]: i is the position reached, and the
\* atoms up to number skip belong to an optional group that takes no part
\* (they end at 0).  Gives where atom k ends (one more than the position of
\* its last character) and the state after it.
ReAdvance(e, st) == [ends |-> <<e>>, st |-> [st EXCEPT !.i = e]]
ReFwdStep(pat, k, s, B, st) ==
    CASE k <= st.skip -> [ends |-> <<0>>, st |-> st]
      [] k > st.skip /\ pat[k].k = "opt" ->
            IF st.i \in B[k + 1] THEN [ends |-> <<st.i>>, st |-> st]
            ELSE [ends |-> <<0>>, st |-> [st EXCEPT !.skip = pat[k].to]]
      [] k > st.skip /\ pat[k].k = "end" -> [ends |-> <<st.i>>, st |-> st]
      [] k > st.skip /\ pat[k].k = "str" -> ReAdvance(st.i + Len(pat[k].ch), st)
      [] OTHER ->
            ReAdvance(st.i + ReFirst(pat[k], {c \in ReLo(pat[k])..ReHi(pat[k], s, st.i) :
                                                 st.i + c \in B[k + 1]}), st)

ReJoin(l, r) == [ends |-> l.ends \o r.ends, st |-> r.st]

\* Atoms a..b from the state st
RECURSIVE ReFwd(_, _, _, _, _, _)
ReFwd(pat, s, B, a, b, st) ==
    IF a = b THEN ReFwdStep(pat, a, s, B, st)
    ELSE Only({ReJoin(l, ReFwd(pat, s, B, (a + b) \div 2 + 1, b, l.st)) :
                  l \in {ReFwd(pat, s, B, a, (a + b) \div 2, st)}})

ReAt(pat, s, B, i) ==
    [ok |-> TRUE, start |-> i, ends |-> ReFwd(pat, s, B, 1, Len(pat), [i |-> i, skip |-> 0]).ends]

ReTable(pat, s) == ReBack(pat, s, 1, Len(pat), <<1..(Len(s) + 1)>>)

\* re.match(pat, s): [ok, start, ends]
ReMatchIn(pat, s, B) ==
    IF 1 \in B[1] THEN ReAt(pat, s, B, 1) ELSE [ok |-> FALSE, start |-> 1, ends |-> <<>>]
ReMatch(pat, s) == Only({ReMatchIn(pat, s, B) : B \in {ReTable(pat, s)}})

\* re.search(pat, s): the match at the first start that has one
ReSearchIn(pat, s, B) ==
    IF B[1] # {} THEN ReAt(pat, s, B, ReMin(B[1])) ELSE [ok |-> FALSE, start |-> 0, ends |-> <<>>]
ReSearch(pat, s) == Only({ReSearchIn(pat, s, B) : B \in {ReTable(pat, s)}})

\* The text matched by atoms a..b of a successful match m.
Group(m, s, a, b) ==
    SubSeq(s, IF a = 1 THEN m.start ELSE m.ends[a - 1], m.ends[b] - 1)

\* str.strip()
RECURSIVE LStrip(_)
LStrip(s) == IF Len(s) > 0 /\ IsSpace(CharAt(s, 1)) THEN LStrip(SubSeq(s, 2, Len(s))) ELSE s
RECURSIVE RStrip(_)
RStrip(s) == IF Len(s) > 0 /\ IsSpace(CharAt(s, Len(s))) THEN RStrip(SubSeq(s, 1, Len(s) - 1)) ELSE s
Strip(s) == LStrip(RStrip(s))

(***************************************************************************)
(* Python float arithmetic (IEEE 754 binary64, round half to even).  The   *)
(* 53-bit significands do not fit 32-bit integers, so whole numbers of any *)
(* size are little-endian sequences of limbs.                              *)
(***************************************************************************)
\* ---- natural numbers of any size: little-endian sequences of limbs
LimbBits == 12
Base == 4096

Pow2(k) == 2^k

RECURSIVE BigNorm(_)
BigNorm(a) == IF a # <<>> /\ a[Len(a)] = 0 THEN BigNorm(SubSeq(a, 1, Len(a) - 1)) ELSE a

RECURSIVE BigFromInt(_)
BigFromInt(n) == IF n = 0 THEN <<>> ELSE <<n % Base>> \o BigFromInt(n \div Base)

RECURSIVE BigToInt(_)
BigToInt(a) == IF a = <<>> THEN 0 ELSE a[1] + Base * BigToInt(Tail(a))

RECURSIVE BigMulSmallC(_, _, _)
BigMulSmallC(a, k, carry) ==
    IF a = <<>> THEN BigFromInt(carry)
    ELSE IF Len(a) < 4
    THEN LET t == a[1] * k + carry
         IN  <<t % Base>> \o BigMulSmallC(Tail(a), k, t \div Base)
    ELSE LET t1 == a[1] * k + carry
             t2 == a[2] * k + t1 \div Base
             t3 == a[3] * k + t2 \div Base
             t4 == a[4] * k + t3 \div Base
         IN  <<t1 % Base, t2 % Base, t3 % Base, t4 % Base>>
             \o BigMulSmallC(SubSeq(a, 5, Len(a)), k, t4 \div Base)

BigMulSmall(a, k) == Only({BigNorm(BigMulSmallC(x, k, 0)) : x \in {a}})

RECURSIVE BigAddC(_, _, _)
BigAddC(a, b, carry) ==
    IF a = <<>> /\ b = <<>> THEN BigFromInt(carry)
    ELSE IF Len(a) < 4 \/ Len(b) < 4
    THEN LET t == (IF a = <<>> THEN 0 ELSE a[1]) + (IF b = <<>> THEN 0 ELSE b[1]) + carry
         IN  <<t % Base>> \o BigAddC(IF a = <<>> THEN a ELSE Tail(a),
                                     IF b = <<>> THEN b ELSE Tail(b), t \div Base)
    ELSE LET t1 == a[1] + b[1] + carry
             t2 == a[2] + b[2] + t1 \div Base
             t3 == a[3] + b[3] + t2 \div Base
             t4 == a[4] + b[4] + t3 \div Base
         IN  <<t1 % Base, t2 % Base, t3 % Base, t4 % Base>>
             \o BigAddC(SubSeq(a, 5, Len(a)), SubSeq(b, 5, Len(b)), t4 \div Base)

BigAdd(a, b) == Only({BigNorm(BigAddC(x, y, 0)) : x \in {a}, y \in {b}})

RECURSIVE BigMul(_, _)
BigMul(a, b) ==
    IF b = <<>> THEN <<>>
    ELSE IF Len(b) = 1 THEN BigMulSmall(a, b[1])
    ELSE BigAdd(BigAdd(BigMulSmall(a, b[1]), <<0>> \o BigMulSmall(a, b[2])),
                <<0, 0>> \o BigMul(a, SubSeq(b, 3, Len(b))))

\* Quotient and remainder of a by the small number d, from the top limb down.
RECURSIVE BigDivSmallR(_, _, _)
BigDivSmallR(a, d, rem) ==
    IF a = <<>> THEN [q |-> <<>>, r |-> rem]
    ELSE IF Len(a) < 4
    THEN LET t == rem * Base + a[Len(a)]
             lo == BigDivSmallR(SubSeq(a, 1, Len(a) - 1), d, t % d)
         IN  [q |-> lo.q \o <<t \div d>>, r |-> lo.r]
    ELSE LET t1 == rem * Base + a[Len(a)]
             t2 == (t1 % d) * Base + a[Len(a) - 1]
             t3 == (t2 % d) * Base + a[Len(a) - 2]
             t4 == (t3 % d) * Base + a[Len(a) - 3]
             lo == BigDivSmallR(SubSeq(a, 1, Len(a) - 4), d, t4 % d)
         IN  [q |-> lo.q \o <<t4 \div d, t3 \div d, t2 \div d, t1 \div d>>, r |-> lo.r]

BigDivSmall(a, d) == LET x0 == BigDivSmallR(a, d, 0) IN [q |-> BigNorm(x0.q), r |-> x0.r]

IntBitLen(n) == IF n = 0 THEN 0 ELSE CHOOSE b \in 1..31 : n \div 2^(b - 1) = 1

BigBitLen(a) == IF a = <<>> THEN 0 ELSE (Len(a) - 1) * LimbBits + IntBitLen(a[Len(a)])

BigShl(a, k) ==
    IF a = <<>> THEN a
    ELSE BigMulSmall([j \in 1..(k \div LimbBits) |-> 0] \o a, Pow2(k % LimbBits))

\* floor(a / 2^k), and whether bits were dropped.
BigShr(a, k) ==
    LET w == k \div LimbBits
        low == SubSeq(a, 1, IF w < Len(a) THEN w ELSE Len(a))
        high == IF w < Len(a) THEN SubSeq(a, w + 1, Len(a)) ELSE <<>>
        d == BigDivSmall(high, Pow2(k % LimbBits))
    IN  [q |-> d.q, sticky |-> (d.r # 0 \/ \E j \in 1..Len(low) : low[j] # 0)]

\* ---- IEEE 754 binary64, positive finite values: m * 2^e, m of 53 bits (or 0)
MantBits == 53

FZero == [m |-> <<>>, e |-> 0]

\* Round-half-even of q with the dropped bits described by half (the first
\* dropped bit) and rest (any later one).
FRoundUp(q, half, rest) ==
    IF half /\ (rest \/ q[1] % 2 = 1) THEN BigAdd(q, <<1>>) ELSE q

\* A carry out of the 53 bits shifts the mantissa once more.
FRenorm(r, e) ==
    IF BigBitLen(r) > MantBits THEN [m |-> BigShr(r, 1).q, e |-> e + 1]
    ELSE [m |-> r, e |-> e]

\* h holds the mantissa and the first dropped bit, q the mantissa alone.
FRoundHalf(h, q, sticky, e) ==
    Only({FRenorm(r, e) : r \in {FRoundUp(q.q, q.sticky, h.sticky \/ sticky)}})

FRoundDrop(h, sticky, e) ==
    Only({FRoundHalf(hv, qv, sticky, e) : hv \in {h}, qv \in {BigShr(h.q, 1)}})

FRoundLen(m, e, sticky, L) ==
    IF L = 0 THEN FZero
    ELSE IF L <= MantBits THEN [m |-> BigShl(m, MantBits - L), e |-> e - (MantBits - L)]
    ELSE FRoundDrop(BigShr(m, L - MantBits - 1), sticky, e + (L - MantBits))

\* The double nearest to (m + f) * 2^e, 0 <= f < 1, f # 0 iff sticky
\* (round half to even).
FRound(m, e, sticky) == Only({FRoundLen(v, e, sticky, BigBitLen(v)) : v \in {m}})

FFromInt(n) == FRound(BigFromInt(n), 0, FALSE)

FMul(a, b) == Only({FRound(BigMul(x.m, y.m), x.e + y.e, FALSE) : x \in {a}, y \in {b}})

\* a / d for a whole number d > 0
FRoundQuot(qr, e) == Only({FRound(v.q, e, v.r # 0) : v \in {qr}})

FDivInt(a, d) ==
    Only({FRoundQuot(BigDivSmall(sh, d), x.e - 64) : x \in {a}, sh \in {BigShl(a.m, 64)}})

FAddAt(a, b, e) ==
    Only({FRound(BigAdd(x, y), e, FALSE) : x \in {BigShl(a.m, a.e - e)}, y \in {BigShl(b.m, b.e - e)}})

FAddOf(a, b) ==
    IF a.m = <<>> THEN b
    ELSE IF b.m = <<>> THEN a
    ELSE FAddAt(a, b, IF a.e < b.e THEN a.e ELSE b.e)

FAdd(a, b) == Only({FAddOf(x, y) : x \in {a}, y \in {b}})

\* int(a)
FTruncOf(a) == IF a.e >= 0 THEN BigToInt(BigShl(a.m, a.e)) ELSE BigToInt(BigShr(a.m, 0 - a.e).q)

FTrunc(a) == Only({FTruncOf(x) : x \in {a}})

\* ======================================================================
\* Subprocess-based YT downloader
\* ======================================================================

\* Number of CommandExecutors a caller offers to the DownloadQueue.
MaxItems == 5

Items == 1..MaxItems

\* DownloadQueue(max_concurrent_downloads=3)
max_concurrent_downloads == 3

\* The state after DownloadQueue.__init__: an empty queue and no running
\* download.  The module's own caller, MainWindow.__init__, raises
\* KeyError('Highest') at its VIDEO_QUALITY_MAP lookup before it constructs
\* the queue, so the class is modelled as it behaves for any caller that
\* constructs it and offers it CommandExecutors; no executor exists yet.
InitYTC ==
    /\ ytc_exec = [i \in Items |-> "none"]
    /\ ytc_queue = <<>>
    /\ ytc_running_downloads = 0
    /\ ytc_events = <<>>
    /\ ytc_last = [item |-> 0, running_before |-> 0, started |-> FALSE]

RestYTC == InitYTC

\* The test DownloadQueue.start_download makes under its mutex.
ytc_may_start_mut(running) == running <= max_concurrent_downloads

ytc_may_start(running) == running < max_concurrent_downloads

\* DownloadQueue.start_download(executor), called with a CommandExecutor
\* that has not been offered before; executors are numbered in the order in
\* which they are offered.
DownloadQueue_start_download(i) ==
    /\ ytc_exec[i] = "none"
    /\ \A j \in Items : j < i => ytc_exec[j] # "none"
    /\ ytc_last' = [item |-> i, running_before |-> ytc_running_downloads,
                    started |-> ytc_may_start(ytc_running_downloads)]
    /\ IF ytc_may_start(ytc_running_downloads)
       THEN /\ ytc_running_downloads' = ytc_running_downloads + 1
            /\ ytc_exec' = [ytc_exec EXCEPT ![i] = "running"]
            /\ UNCHANGED ytc_queue
       ELSE /\ ytc_queue' = Append(ytc_queue, i)
            /\ ytc_exec' = [ytc_exec EXCEPT ![i] = "queued"]
            /\ UNCHANGED ytc_running_downloads
    /\ UNCHANGED ytc_events
    /\ UNCHANGED notYTC

\* CommandExecutor.run reaches one of its two finished_signal.emit calls:
\* after process.wait() (success = returncode == 0) or in the except branch.
CommandExecutor_run(i, outcome) ==
    /\ ytc_exec[i] = "running"
    /\ ytc_exec' = [ytc_exec EXCEPT ![i] = "emitted"]
    /\ ytc_events' = Append(ytc_events, [item |-> i, success |-> (outcome = "exit0")])
    /\ UNCHANGED <<ytc_queue, ytc_running_downloads, ytc_last>>
    /\ UNCHANGED notYTC

\* DownloadQueue.on_download_finished, run in the main thread for the oldest
\* queued finished_signal.
DownloadQueue_on_download_finished_lifo ==
    /\ ytc_events # <<>>
    /\ ytc_events' = Tail(ytc_events)
    /\ IF ytc_queue # <<>>
       THEN /\ ytc_queue' = SubSeq(ytc_queue, 1, Len(ytc_queue) - 1)
            /\ ytc_running_downloads' = ytc_running_downloads
            /\ ytc_exec' = [ytc_exec EXCEPT ![Head(ytc_events).item] = "done", ![ytc_queue[Len(ytc_queue)]] = "running"]
       ELSE /\ ytc_queue' = ytc_queue
            /\ ytc_running_downloads' = ytc_running_downloads - 1
            /\ ytc_exec' = [ytc_exec EXCEPT ![Head(ytc_events).item] = "done"]
    /\ UNCHANGED ytc_last
    /\ UNCHANGED notYTC

DownloadQueue_on_download_finished_mut ==
    /\ ytc_events # <<>>
    /\ ytc_events' = Tail(ytc_events)
    /\ ytc_running_downloads' = ytc_running_downloads - 1
    /\ ytc_exec' = [ytc_exec EXCEPT ![Head(ytc_events).item] = "done"]
    /\ UNCHANGED <<ytc_queue, ytc_last>>
    /\ UNCHANGED notYTC

DownloadQueue_on_download_finished ==
    /\ ytc_events # <<>>
    /\ LET ev == Head(ytc_events)
           done == [ytc_exec EXCEPT ![ev.item] = "done"]
       IN  /\ ytc_events' = Tail(ytc_events)
           /\ IF ytc_queue # <<>>
              THEN /\ ytc_queue' = Tail(ytc_queue)
                   /\ ytc_running_downloads' = (ytc_running_downloads - 1) + 1
                   /\ ytc_exec' = [done EXCEPT ![Head(ytc_queue)] = "running"]
              ELSE /\ ytc_running_downloads' = ytc_running_downloads - 1
                   /\ ytc_exec' = done
                   /\ UNCHANGED ytc_queue
    /\ UNCHANGED ytc_last
    /\ UNCHANGED notYTC

RunOutcomes == {"exit0", "exitN", "exception"}

NextYTC ==
    \/ \E i \in Items : DownloadQueue_start_download(i)
    \/ \E i \in Items, o \in RunOutcomes : CommandExecutor_run(i, o)
    \/ DownloadQueue_on_download_finished

\* Executors whose thread has been started and that have not emitted
\* finished_signal yet.
ytc_Started == {i \in Items : ytc_exec[i] = "running"}

\* C1: at most max_concurrent_downloads executors are started and unfinished,
\* running_downloads stays in 0..3, and an executor offered while 3 are
\* running is appended to the queue instead of being started.
C1_BoundedExecutors ==
    /\ Cardinality(ytc_Started) <= max_concurrent_downloads
    /\ ytc_running_downloads \in 0..max_concurrent_downloads
    /\ (ytc_last.item # 0 /\ ytc_last.running_before = max_concurrent_downloads)
          => ~ytc_last.started
    /\ \A i \in Items : ytc_exec[i] = "queued" <=> i \in Range(ytc_queue)

C1_Witness ==
    /\ ytc_running_downloads = max_concurrent_downloads
    /\ Len(ytc_queue) >= 1
    /\ ytc_last.running_before = max_concurrent_downloads
    /\ ytc_exec[ytc_last.item] = "queued"

\* C11: an executor that had to wait in the queue is eventually started, the
\* queue holds executors only while running_downloads is 3, and it does not
\* keep one while fewer than 3 executors are running.
C11_QueuedAreStarted ==
    /\ \A i \in Items : (ytc_exec[i] = "queued") ~> (ytc_exec[i] \in {"running", "emitted", "done"})
    /\ [](ytc_queue # <<>> => ytc_running_downloads = max_concurrent_downloads)
    /\ (ytc_queue # <<>> /\ Cardinality(ytc_Started) < max_concurrent_downloads)
          ~> (ytc_queue = <<>> \/ Cardinality(ytc_Started) = max_concurrent_downloads)

C11_Witness ==
    /\ Len(ytc_queue) >= 1
    /\ Cardinality(ytc_Started) < max_concurrent_downloads
    /\ \E i \in Items : ytc_exec[i] = "done" /\ \E j \in Items : j > i + max_concurrent_downloads - 1 /\ ytc_exec[j] = "running"

\* C16: executors leave the queue in the order in which they entered it: one
\* enters only at the tail, and the one that is started is the head, which has
\* waited longest.
C16_FirstInFirstOut ==
    [][/\ \A i \in Items : (ytc_exec[i] # "queued" /\ ytc_exec'[i] = "queued") => ytc_queue' = Append(ytc_queue, i)
       /\ \A i \in Items : (ytc_exec[i] = "queued" /\ ytc_exec'[i] # "queued") =>
             /\ ytc_queue # <<>>
             /\ i = Head(ytc_queue)
             /\ ytc_queue' = Tail(ytc_queue)
             /\ ytc_exec'[i] = "running"
       /\ Range(ytc_queue) = {i \in Items : ytc_exec[i] = "queued"}
       /\ Cardinality(Range(ytc_queue)) = Len(ytc_queue)]_vars

\* Two executors wait, the one offered last behind the other, and a
\* finished_signal is about to start one of them.
C16_Witness ==
    /\ Len(ytc_queue) >= 2
    /\ ytc_last.started = FALSE
    /\ ytc_last.item = ytc_queue[Len(ytc_queue)]
    /\ ytc_events # <<>>

\* ======================================================================
\* YT/yt.pyw: DownloadThread per item, started by MainWindow.start_download
\* ======================================================================

\* Number of add_to_queue clicks explored in YT/yt.pyw.
YtMaxItems == 4

\* Preview ThumbnailFetchers in flight at one time.
MaxPreviews == 2

YtItems == 1..YtMaxItems

\* Texts of the URL entry and of the clipboard: empty, a text that is no
\* link, two links.
UrlTexts == {"", "x", "http://a", "http://b"}

\* url.startswith("http")
StartsWithHttp(u) == u \in {"http://a", "http://b"}

\* get_clipboard_link(): the clipboard's text if it is a link, else None
get_clipboard_link(content) == IF content # "" /\ StartsWithHttp(content) THEN content ELSE "None"

\* info.get('title', 'No title found') of the info fetched for a URL, and
\* the texts error_signal carries: from the else branch of `if info_dict`
\* and from the two except branches (str(e) is taken to name the URL)
YtTitle(u) == "title of " \o u
YtNoInfo == "Could not fetch video info."
YtError(u) == "yt-dlp error: " \o u
YtThumbnailError(u) == "Error loading thumbnail: " \o u

\* How extract_info of a ThumbnailFetcher ends: with an info_dict that names
\* no thumbnail or one, with None, with yt_dlp.utils.DownloadError, or with
\* another exception.
PreviewOutcomes == {"info", "info_thumbnail", "None", "DownloadError", "Exception"}

\* The text error_signal carries when extract_info does not give an info_dict
ThumbnailFetcher_error(u, outcome) ==
    CASE outcome = "None" -> YtNoInfo
      [] outcome = "DownloadError" -> YtError(u)
      [] OTHER -> YtThumbnailError(u)

\* How many times on_url_changed(link) runs in paste_link: once through
\* textChanged when setText changes the entry's text, and once by the
\* explicit call.
paste_link_calls(text, link) == (IF text # link THEN 1 ELSE 0) + 1

\* The state after MainWindow.__init__, which ends with paste_link(): with a
\* link in the clipboard the entry holds it and on_url_changed has run for
\* it twice; otherwise the entry is empty and the title label keeps the
\* text setup_ui gave it.
InitYT ==
    \E link \in {get_clipboard_link(content) : content \in UrlTexts} :
        /\ yt_url_entry = IF link # "None" THEN link ELSE ""
        /\ yt_current_preview_url = "None"
        /\ yt_current_preview_info = ""
        /\ yt_title_label = IF link # "None" THEN "Fetching title..."
                            ELSE "Enter a URL to begin"
        /\ yt_previews = [u \in UrlTexts |->
                             IF u = link THEN paste_link_calls("", link) ELSE 0]
        /\ yt_thumbnails = [u \in UrlTexts |-> 0]
        /\ yt_item_counter = 0
        /\ yt_item_fetch = [i \in YtItems |-> ""]
        /\ yt_thread = [i \in YtItems |-> "none"]
        /\ yt_download_queue = [queue |-> <<>>, running_downloads |-> 0,
                                max_concurrent_downloads |-> max_concurrent_downloads]

\* The window started with no link in the clipboard: the state of these
\* variables in the specifications of the other tools.
RestYT == InitYT /\ yt_url_entry = ""

\* The preview ThumbnailFetchers that have not finished.
yt_in_flight ==
    yt_previews["http://a"] + yt_previews["http://b"]
        + yt_thumbnails["http://a"] + yt_thumbnails["http://b"]

\* MainWindow.on_url_changed(url), run calls times in one handler: every run
\* drops the cached preview, shows "Fetching title..." and starts one more
\* preview ThumbnailFetcher for the link; a text that is no link changes
\* nothing.
MainWindow_on_url_changed(url, calls) ==
    IF StartsWithHttp(url)
    THEN /\ yt_in_flight + calls <= MaxPreviews
         /\ yt_current_preview_url' = "None"
         /\ yt_current_preview_info' = ""
         /\ yt_title_label' = "Fetching title..."
         /\ yt_previews' = [yt_previews EXCEPT ![url] = @ + calls]
    ELSE UNCHANGED <<yt_current_preview_url, yt_current_preview_info, yt_title_label,
                     yt_previews>>

\* The user edits the URL entry: url_entry.textChanged ->
\* MainWindow.on_url_changed(url)
yt_on_url_changed(u) ==
    /\ u # yt_url_entry
    /\ yt_url_entry' = u
    /\ MainWindow_on_url_changed(u, 1)
    /\ UNCHANGED <<yt_thumbnails, yt_item_counter, yt_item_fetch, yt_thread,
                   yt_download_queue>>
    /\ UNCHANGED notYT

\* MainWindow.paste_link (the paste button): with a link in the clipboard,
\* url_entry.setText(link) and then on_url_changed(link).
yt_paste_link(content) ==
    /\ \E link \in {get_clipboard_link(content)} :
          IF link # "None"
          THEN /\ yt_url_entry' = link
               /\ MainWindow_on_url_changed(link, paste_link_calls(yt_url_entry, link))
          ELSE UNCHANGED <<yt_url_entry, yt_current_preview_url, yt_current_preview_info,
                           yt_title_label, yt_previews>>
    /\ UNCHANGED <<yt_thumbnails, yt_item_counter, yt_item_fetch, yt_thread,
                   yt_download_queue>>
    /\ UNCHANGED notYT

\* A preview ThumbnailFetcher (item_id -1) leaves extract_info: info_loaded
\* -> MainWindow.on_preview_info_loaded, after which the fetcher goes on to
\* the thumbnail if the info names one, or error_signal, whose slot puts the
\* text into the title label.
yt_on_preview_info_loaded(u, outcome) ==
    /\ yt_previews[u] > 0
    /\ yt_previews' = [yt_previews EXCEPT ![u] = @ - 1]
    /\ IF outcome \in {"info", "info_thumbnail"}
       THEN /\ yt_title_label' = YtTitle(u)
            /\ yt_current_preview_url' = u
            /\ yt_current_preview_info' = u
       ELSE /\ yt_title_label' = ThumbnailFetcher_error(u, outcome)
            /\ UNCHANGED <<yt_current_preview_url, yt_current_preview_info>>
    /\ yt_thumbnails' = IF outcome = "info_thumbnail"
                        THEN [yt_thumbnails EXCEPT ![u] = @ + 1]
                        ELSE yt_thumbnails
    /\ UNCHANGED <<yt_url_entry, yt_item_counter, yt_item_fetch, yt_thread,
                   yt_download_queue>>
    /\ UNCHANGED notYT

\* The preview ThumbnailFetcher leaves the thumbnail download:
\* thumbnail_loaded -> set_thumbnail (the pixmap only), or urlopen raises and
\* error_signal puts the error text into the title label.
yt_preview_thumbnail(u, raised) ==
    /\ yt_thumbnails[u] > 0
    /\ yt_thumbnails' = [yt_thumbnails EXCEPT ![u] = @ - 1]
    /\ yt_title_label' = IF raised THEN YtThumbnailError(u) ELSE yt_title_label
    /\ UNCHANGED <<yt_url_entry, yt_current_preview_url, yt_current_preview_info,
                   yt_previews, yt_item_counter, yt_item_fetch, yt_thread,
                   yt_download_queue>>
    /\ UNCHANGED notYT

\* MainWindow.start_download(title, is_audio, url, item_id): builds the
\* DownloadThread and calls downloader.start().
yt_start_download(thread, i) ==
    IF i = -1 THEN thread ELSE [thread EXCEPT ![i] = "running"]

\* MainWindow.add_to_queue
yt_add_to_queue ==
    /\ yt_url_entry # ""
    /\ yt_item_counter < YtMaxItems
    /\ yt_item_counter' = yt_item_counter + 1
    /\ IF yt_url_entry = yt_current_preview_url /\ yt_current_preview_info # ""
       THEN /\ yt_thread' = yt_start_download(yt_thread, yt_item_counter + 1)
            /\ UNCHANGED yt_item_fetch
       ELSE /\ yt_item_fetch' = [yt_item_fetch EXCEPT ![yt_item_counter + 1] = yt_url_entry]
            /\ UNCHANGED yt_thread
    /\ UNCHANGED <<yt_url_entry, yt_current_preview_url, yt_current_preview_info, yt_title_label,
                   yt_previews, yt_thumbnails, yt_download_queue>>
    /\ UNCHANGED notYT

\* The item's ThumbnailFetcher leaves extract_info: info_loaded ->
\* start_download, or error_signal -> on_item_error.  What it emits
\* afterwards for the thumbnail reaches only the item widget's status text.
yt_item_info_loaded(i, ok) ==
    /\ yt_item_fetch[i] # ""
    /\ yt_item_fetch' = [yt_item_fetch EXCEPT ![i] = ""]
    /\ yt_thread' = IF ok THEN yt_start_download(yt_thread, i) ELSE yt_thread
    /\ UNCHANGED <<yt_url_entry, yt_current_preview_url, yt_current_preview_info, yt_title_label,
                   yt_previews, yt_thumbnails, yt_item_counter, yt_download_queue>>
    /\ UNCHANGED notYT

\* DownloadThread.run returns (finished_signal or error_signal emitted).
DownloadThread_run(i) ==
    /\ yt_thread[i] = "running"
    /\ yt_thread' = [yt_thread EXCEPT ![i] = "finished"]
    /\ UNCHANGED <<yt_url_entry, yt_current_preview_url, yt_current_preview_info, yt_title_label,
                   yt_previews, yt_thumbnails, yt_item_counter, yt_item_fetch, yt_download_queue>>
    /\ UNCHANGED notYT

NextYT ==
    \/ \E u \in UrlTexts : yt_on_url_changed(u)
    \/ \E content \in UrlTexts : yt_paste_link(content)
    \/ \E u \in UrlTexts, o \in PreviewOutcomes : yt_on_preview_info_loaded(u, o)
    \/ \E u \in UrlTexts, raised \in BOOLEAN : yt_preview_thumbnail(u, raised)
    \/ yt_add_to_queue
    \/ \E i \in YtItems, ok \in BOOLEAN : yt_item_info_loaded(i, ok)
    \/ \E i \in YtItems : DownloadThread_run(i)

yt_Running == {i \in YtItems : yt_thread[i] = "running"}

\* C2: at most max_concurrent_downloads = 3 DownloadThreads run at any time.
C2_AtMostThreeThreads == Cardinality(yt_Running) <= max_concurrent_downloads

\* C26: when no preview fetch is running and the URL entry holds a link,
\* the cached preview, if there is one, is that of the link in the entry,
\* and the title label does not show the title of another link.
C26_PreviewOfCurrentUrl ==
    ((\A u \in UrlTexts : yt_previews[u] = 0 /\ yt_thumbnails[u] = 0)
         /\ StartsWithHttp(yt_url_entry))
        => /\ yt_current_preview_url \in {"None", yt_url_entry}
           /\ yt_current_preview_info \in {"", yt_url_entry}
           /\ yt_title_label \notin {YtTitle(u) : u \in UrlTexts \ {yt_url_entry}}

\* ======================================================================
\* iMShare/download.pyw: DownloadWorker.parse_output_line
\* ======================================================================

\* r'Receiving (\d+) files \((.+)\)'
ReReceiving == Lits("Receiving ") \o <<DigCh("+")>> \o Lits(" files (") \o <<AnyCh("+"), LitCh(")")>>
\* r"Accept '(.+)' \((.+)\)\?"
ReAccept == Lits("Accept '") \o <<AnyCh("+")>> \o Lits("' (") \o <<AnyCh("+")>> \o Lits(")?")
\* r'(.+?)\\'
ReFolder == <<AnyCh("+?"), LitCh("\\")>>
\* r'(.+?)\s+(\d+)%\s+\|(.+?)\|\s+\((.+?),\s*(.+?)\)\s+(\d+)/(\d+)'
ReProgress == <<AnyCh("+?"), SpcCh("+"), DigCh("+"), LitCh("%"), SpcCh("+"), LitCh("|"), AnyCh("+?"),
                LitCh("|"), SpcCh("+"), LitCh("("), AnyCh("+?"), LitCh(","), SpcCh("*"), AnyCh("+?"),
                LitCh(")"), SpcCh("+"), DigCh("+"), LitCh("/"), DigCh("+")>>
\* r'file: (.+)'
ReFile == Lits("file: ") \o <<AnyCh("+")>>

\* DownloadWorker.__init__
DownloadWorker_init(queue_id) ==
    [queue_id |-> queue_id, is_hashing |-> TRUE, filename |-> "File", filesize |-> "N/A",
     full_file_path |-> "None", path_exists |-> FALSE, total_files |-> 1,
     current_file_index |-> 0, download_dir |-> "None"]

Sig(name, args) == [sig |-> name, args |-> args]

\* os.path.join(os.getcwd(), d)
JoinCwd(d) == "cwd\\" \o d

\* The files finished before the current one, as the progress branch counts
\* them.
dl_completed_files_mut(current_file_index) == current_file_index

dl_completed_files(current_file_index) == current_file_index - 1

\* int(completed_files_progress + current_file_contribution)
dl_progress_sum(progress_per_file, completed_files, current_file_progress) ==
    FTrunc(FAdd(FMul(FFromInt(completed_files), progress_per_file),
                FMul(FDivInt(FFromInt(current_file_progress), 100), progress_per_file)))

\* overall_progress of the progress branch, as int() truncates it
dl_overall_progress(current_file_index, total_files, current_file_progress) ==
    dl_progress_sum(FDivInt(FFromInt(100), total_files),
                    dl_completed_files(current_file_index), current_file_progress)

\* The branch of parse_output_line a line takes: the first pattern, in the
\* order of the if/elif chain, that matches.
dl_branch(line) ==
    IF ReMatch(ReReceiving, line).ok THEN "initial_summary"
    ELSE IF ReSearch(ReAccept, line).ok THEN "accept"
    ELSE IF ReMatch(ReFolder, line).ok THEN "folder_name"
    ELSE IF ReMatch(ReProgress, line).ok THEN "uploading"
    ELSE IF ReSearch(ReFile, line).ok THEN "file_created"
    ELSE "none"

\* The name and size signals the first three branches emit.
dl_name_size_signals(w, name, size) ==
    <<Sig("file_name_size_signal", <<name, size, w.queue_id>>),
      Sig("current_file_signal", <<name, size>>)>>

dl_summary_name(total) == "Receiving " \o IntToStr(total) \o " files"

\* if initial_summary_match := re.match(...)
dl_initial_summary(w, total, size) ==
    [w |-> [w EXCEPT !.total_files = total, !.filesize = size,
                     !.filename = dl_summary_name(total)],
     signals |-> dl_name_size_signals(w, dl_summary_name(total), size)]

\* elif accept_match := re.search(...)
dl_accept(w, name, size) ==
    [w |-> [w EXCEPT !.filename = name, !.filesize = size],
     signals |-> dl_name_size_signals(w, name, size)]

\* elif folder_name_match := re.match(...)
dl_folder_name(w, dir, exists) ==
    [w |-> [w EXCEPT !.download_dir = dir, !.full_file_path = JoinCwd(dir),
                     !.path_exists = exists, !.filename = dir],
     signals |-> dl_name_size_signals(w, dir, w.filesize)]

\* elif uploading_match := re.match(...)
dl_uploading(w, filename, current_file_progress, speed, current_file_index, total_files) ==
    [w |-> [w EXCEPT !.filename = Strip(filename),
                     !.current_file_index = current_file_index,
                     !.total_files = total_files, !.is_hashing = FALSE],
     signals |-> <<Sig("progress_signal",
                       <<IF total_files > 1
                         THEN dl_overall_progress(current_file_index, total_files,
                                                  current_file_progress)
                         ELSE current_file_progress>>),
                   Sig("speed_signal", <<Strip(speed)>>),
                   Sig("status_update_signal", <<"Downloading...", "yellow">>),
                   Sig("time_remaining_signal", <<"">>)>>]

\* elif file_created := re.search(...)
dl_file_created(w, full_file_path, exists) ==
    [w |-> IF exists
           THEN [w EXCEPT !.full_file_path = full_file_path, !.path_exists = TRUE]
           ELSE [w EXCEPT !.full_file_path = "None", !.path_exists = FALSE],
     signals |-> <<>>]

\* The if/elif chain over the five match objects.
dl_chain(w, line, exists, initial_summary_match, accept_match, folder_name_match, uploading_match, file_created) ==
    IF initial_summary_match.ok
    THEN dl_initial_summary(w, ParseInt(Group(initial_summary_match, line, 11, 11)),
                            Strip(Group(initial_summary_match, line, 20, 20)))
    ELSE IF accept_match.ok
    THEN dl_accept(w, Strip(Group(accept_match, line, 9, 9)),
                   Strip(Group(accept_match, line, 13, 13)))
    ELSE IF folder_name_match.ok
    THEN dl_folder_name(w, Strip(Group(folder_name_match, line, 1, 1)), exists)
    ELSE IF uploading_match.ok
    THEN dl_uploading(w, Group(uploading_match, line, 1, 1),
                      ParseInt(Group(uploading_match, line, 3, 3)),
                      Group(uploading_match, line, 14, 14),
                      ParseInt(Group(uploading_match, line, 17, 17)),
                      ParseInt(Group(uploading_match, line, 19, 19)))
    ELSE IF file_created.ok
    THEN dl_file_created(w, Strip(Group(file_created, line, 7, 7)), exists)
    ELSE [w |-> w, signals |-> <<>>]

\* DownloadWorker.parse_output_line(line): the worker's fields afterwards and
\* the signals emitted, in order.  exists is what the file system answers to
\* the os.path.isdir / os.path.exists call of the branch.
parse_output_line(w, line, exists) ==
    dl_chain(w, line, exists, ReMatch(ReReceiving, line), ReSearch(ReAccept, line),
             ReMatch(ReFolder, line), ReMatch(ReProgress, line), ReSearch(ReFile, line))

\* ---- croc's progress lines, as inputs

\* Files in one transfer (the n of the file counter i/n).
DlpMaxFiles == 3

\* Largest percentage croc prints.
DlpMaxPercent == 100

\* File names croc prints: a plain one and one inside a received folder.
DlpNames == {"a.txt", "d\\a.txt"}

\* Other lines of a croc receive session.
DlpTexts == {"Receiving 2 files (3.4 MB)\n", "Accept 'a.txt' (1.2 MB)? (Y/n) \n",
             "Receiving (<-10.0.0.7:9009)\n", "croc: room not ready\n",
             "  file: out/a.txt\n", "\n"}

\* croc's progress line '<name> <p>% |<bar>| (<size>, <speed>) <i>/<n>'
ProgressLine(name, p, i, n) ==
    name \o " " \o IntToStr(p) \o "% |##--| (1.0/2.0 MB, 3.1 MB/s) "
         \o IntToStr(i) \o "/" \o IntToStr(n) \o "\n"

DlpInputs ==
    {[kind |-> "progress", name |-> nm, p |-> p, i |-> i, n |-> n] :
        nm \in DlpNames, p \in 0..DlpMaxPercent,
        i \in 1..DlpMaxFiles, n \in 1..DlpMaxFiles}
    \cup {[kind |-> "text", name |-> t, p |-> 0, i |-> 0, n |-> 0] : t \in DlpTexts}

DlpLine(in) ==
    IF in.kind = "progress" THEN ProgressLine(in.name, in.p, in.i, in.n) ELSE in.name

\* No line under consideration: the state of these variables in the
\* specifications of the other tools.
RestDLP ==
    /\ dlp_pc = "idle"
    /\ dlp_input = [kind |-> "text", name |-> "", p |-> 0, i |-> 0, n |-> 0]
    /\ dlp_line = ""
    /\ dlp_exists = FALSE
    /\ dlp_worker = DownloadWorker_init("q1")
    /\ dlp_signals = <<>>

\* A worker that has just read a line from croc.
InitDLP ==
    /\ dlp_pc = "ready"
    /\ dlp_input \in {in \in DlpInputs : in.kind = "progress" => in.i <= in.n}
    /\ dlp_line = DlpLine(dlp_input)
    /\ dlp_exists \in BOOLEAN
    /\ dlp_worker = DownloadWorker_init("q1")
    /\ dlp_signals = <<>>

DownloadWorker_parse_output_line ==
    /\ dlp_pc = "ready"
    /\ \E r \in {parse_output_line(dlp_worker, dlp_line, dlp_exists)} :
           /\ dlp_worker' = r.w
           /\ dlp_signals' = r.signals
    /\ dlp_pc' = "parsed"
    /\ UNCHANGED <<dlp_input, dlp_line, dlp_exists>>
    /\ UNCHANGED notDLP

NextDLP == DownloadWorker_parse_output_line

\* The values emitted on a signal, in order.
Emitted(signals, name) == SelectSeq(signals, LAMBDA e : e.sig = name)

\* C5 as stated: the emitted value is in 0..100 and is p for n <= 1, the
\* integer part of (i-1)*100/n + p/n for n > 1.
C5_ExactProgress ==
    (dlp_pc = "parsed" /\ dlp_input.kind = "progress" /\ dlp_input.p \in 0..100
        /\ 1 <= dlp_input.i /\ dlp_input.i <= dlp_input.n)
    => \A k \in 1..Len(Emitted(dlp_signals, "progress_signal")) :
          LET v == Emitted(dlp_signals, "progress_signal")[k].args[1]
          IN  /\ v \in 0..100
              /\ v = IF dlp_input.n > 1
                     THEN ((dlp_input.i - 1) * 100 + dlp_input.p) \div dlp_input.n
                     ELSE dlp_input.p

\* C5 (amended): the emitted value is in 0..100; for n <= 1 it is p, for
\* n > 1 it is the integer part of (i-1)*100/n + p/n or one less than that
\* (the sum is computed in binary floating point and then truncated).
C5_ProgressInRange ==
    (dlp_pc = "parsed" /\ dlp_input.kind = "progress" /\ dlp_input.p \in 0..100
        /\ 1 <= dlp_input.i /\ dlp_input.i <= dlp_input.n)
    => \A k \in 1..Len(Emitted(dlp_signals, "progress_signal")) :
          LET v == Emitted(dlp_signals, "progress_signal")[k].args[1]
              exact == ((dlp_input.i - 1) * 100 + dlp_input.p) \div dlp_input.n
          IN  /\ v \in 0..100
              /\ IF dlp_input.n > 1 THEN v \in {exact - 1, exact} ELSE v = dlp_input.p

\* A progress line of a file that completes the last of several files.
C5_Witness ==
    /\ dlp_pc = "parsed"
    /\ dlp_input.kind = "progress" /\ dlp_input.n > 1 /\ dlp_input.i = dlp_input.n
    /\ dlp_input.p = 100
    /\ Len(Emitted(dlp_signals, "progress_signal")) = 1
    /\ Emitted(dlp_signals, "progress_signal")[1].args[1] = 100

\* C7: every progress line yields a progress_signal and the status
\* 'Downloading...', whatever the file name.
C7_ProgressLineReported ==
    (dlp_pc = "parsed" /\ dlp_input.kind = "progress")
    => /\ Len(Emitted(dlp_signals, "progress_signal")) = 1
       /\ Emitted(dlp_signals, "status_update_signal")
             = <<Sig("status_update_signal", <<"Downloading...", "yellow">>)>>

\* ======================================================================
\* iMShare/download.pyw: MainWindow, QThreadPool and DownloadWorker.run
\* ======================================================================

\* DownloadWorkers created in one run of the window.
DlMaxWorkers == 2

\* Lines one croc process prints before it ends.
DlMaxLines == 1

\* Threads of the QThreadPool (QThread.idealThreadCount() of the machine).
DlMaxThreads == 2

DlWorkers == 1..DlMaxWorkers

\* Texts of the code entry: empty, a code with blanks around it.
DlEntryTexts == {"", " c1 "}

\* What croc prints.
DlLines == {"peer: Not Ready (1 MB)\n", "croc: room not ready\n"}

\* sub in s
Contains(s, sub) ==
    \E k \in 1..(Len(s) - Len(sub) + 1) : SubSeq(s, k, k + Len(sub) - 1) = sub

\* str(uuid.uuid4()) of the n-th call
QueueId(n) == "q" \o IntToStr(n)

NoWorker ==
    [pc |-> "none", code_prefix |-> "", w |-> DownloadWorker_init("None"),
     process |-> "None", output |-> "", returncode |-> 0, log |-> <<>>]

\* The main window's fields as one record.
DlWindow ==
    [path_entry |-> dl_path_entry, download_code |-> dl_download_code,
     is_sending |-> dl_is_sending, file_queue |-> dl_file_queue, uuid |-> dl_uuid,
     queue_item_widgets |-> dl_queue_item_widgets, worker |-> dl_worker]

DlWindowBecomes(s) ==
    /\ dl_path_entry' = s.path_entry
    /\ dl_download_code' = s.download_code
    /\ dl_is_sending' = s.is_sending
    /\ dl_file_queue' = s.file_queue
    /\ dl_uuid' = s.uuid
    /\ dl_queue_item_widgets' = s.queue_item_widgets
    /\ dl_worker' = s.worker

\* settings.get("download_code") of iMShare.json when the window opens: the
\* code start_download saved in an earlier run, or none.
DlSavedCodes == {"", "c1"}

\* The state after MainWindow.__init__: the saved code is in the entry.
InitDL ==
    /\ dl_download_code \in DlSavedCodes
    /\ dl_path_entry = dl_download_code
    /\ dl_is_sending = FALSE
    /\ dl_file_queue = <<>>
    /\ dl_uuid = 0
    /\ dl_queue_item_widgets = [n \in DlWorkers |-> "absent"]
    /\ dl_max_thread_count \in 1..DlMaxThreads
    /\ dl_worker = [n \in DlWorkers |-> NoWorker]
    /\ dl_events = <<>>

\* The window of a machine with one core and no saved code, left alone in
\* the specifications of the other tools.
RestDL == InitDL /\ dl_max_thread_count = 1 /\ dl_download_code = ""

\* MainWindow.start_send_thread: a new DownloadWorker handed to the pool.
dl_start_send_thread(s, code_prefix, n) ==
    [s EXCEPT !.worker[n] = [NoWorker EXCEPT !.pc = "pooled", !.code_prefix = code_prefix,
                                             !.w = DownloadWorker_init(QueueId(n))]]

\* MainWindow.process_pending_queue
dl_process_pending_queue(s) ==
    IF s.is_sending \/ s.file_queue = <<>> THEN s
    ELSE dl_start_send_thread(
             [s EXCEPT !.file_queue = Tail(@), !.is_sending = TRUE,
                       !.queue_item_widgets[Head(s.file_queue).n] = "listed"],
             Head(s.file_queue).code_prefix, Head(s.file_queue).n)

\* MainWindow.start_download, after the two early returns
dl_enqueue(s, code_prefix) ==
    dl_process_pending_queue(
        [s EXCEPT !.download_code = code_prefix, !.uuid = @ + 1,
                  !.file_queue = Append(@, [code_prefix |-> code_prefix, n |-> s.uuid + 1])])

\* MainWindow.start_download
dl_start_download_mut(s) ==
    IF Strip(s.path_entry) = "" THEN s
    ELSE IF s.is_sending
         THEN [s EXCEPT !.download_code = Strip(s.path_entry), !.uuid = @ + 1,
                        !.file_queue = Append(@, [code_prefix |-> Strip(s.path_entry), n |-> s.uuid + 1])]
    ELSE dl_enqueue(s, Strip(s.path_entry))

dl_start_download(s) ==
    IF Strip(s.path_entry) = "" THEN s
    ELSE IF s.is_sending THEN s
    ELSE dl_enqueue(s, Strip(s.path_entry))

\* MainWindow.execute_croc_command(code)
dl_execute_croc_command(s, code) ==
    IF code = "" THEN s
    ELSE IF s.is_sending THEN s
    ELSE dl_start_download([s EXCEPT !.path_entry = code])

\* MainWindow.clear_all
dl_clear_all(s) == [s EXCEPT !.path_entry = "", !.is_sending = FALSE]

\* handle_command_completion(success, ..., window, queue_id, status_message)
dl_handle_command_completion_mut(s, ev) ==
    dl_process_pending_queue(
        [s EXCEPT !.is_sending = FALSE,
                  !.file_queue = IF ev.success THEN @
                                 ELSE Append(@, [code_prefix |-> s.worker[ev.n].code_prefix, n |-> ev.n]),
                  !.queue_item_widgets[ev.n] =
                      IF ~ev.success THEN "absent"
                      ELSE IF @ = "absent" THEN @ ELSE "complete"])

dl_handle_command_completion(s, ev) ==
    dl_process_pending_queue(
        [s EXCEPT !.is_sending = FALSE,
                  !.queue_item_widgets[ev.n] =
                      IF ~ev.success THEN "absent"
                      ELSE IF @ = "absent" THEN @ ELSE "complete"])

\* The user edits the code entry.
path_entry_edited(t) ==
    /\ t # dl_path_entry
    /\ dl_path_entry' = t
    /\ UNCHANGED <<dl_download_code, dl_is_sending, dl_file_queue, dl_uuid,
                   dl_queue_item_widgets, dl_max_thread_count, dl_worker, dl_events>>
    /\ UNCHANGED notDL

\* download_file_button.clicked -> MainWindow.start_download
start_download ==
    /\ dl_uuid < DlMaxWorkers
    /\ DlWindowBecomes(dl_start_download(DlWindow))
    /\ UNCHANGED <<dl_max_thread_count, dl_events>>
    /\ UNCHANGED notDL

\* A friend card is clicked -> MainWindow.execute_croc_command(code)
execute_croc_command(code) ==
    /\ dl_uuid < DlMaxWorkers
    /\ DlWindowBecomes(dl_execute_croc_command(DlWindow, code))
    /\ UNCHANGED <<dl_max_thread_count, dl_events>>
    /\ UNCHANGED notDL

\* clear_path_button.clicked -> MainWindow.clear_all
clear_all ==
    /\ DlWindowBecomes(dl_clear_all(DlWindow))
    /\ UNCHANGED <<dl_max_thread_count, dl_events>>
    /\ UNCHANGED notDL

\* The main thread handles the oldest queued finished_signal.
handle_command_completion ==
    /\ dl_events # <<>>
    /\ DlWindowBecomes(dl_handle_command_completion(DlWindow, Head(dl_events)))
    /\ dl_events' = Tail(dl_events)
    /\ UNCHANGED dl_max_thread_count
    /\ UNCHANGED notDL

\* The signals of the two except branches of DownloadWorker.run.
dl_except_signals_mut(queue_id, text) ==
    <<Sig("finished_signal", <<FALSE, queue_id, "Failed">>), Sig("output_signal", <<text>>),
      Sig("finished_signal", <<FALSE, queue_id, "Failed">>)>>

dl_except_signals(queue_id, text) ==
    <<Sig("output_signal", <<text>>), Sig("finished_signal", <<FALSE, queue_id, "Failed">>)>>

\* "not ready" in output
dl_not_ready_mut(output) == Contains(output, "Not Ready")

dl_not_ready(output) == Contains(output, "not ready")

\* The finished_signal after process.wait()
dl_exit_signal(queue_id, returncode, output) ==
    IF returncode # 0
    THEN Sig("finished_signal",
             <<FALSE, queue_id, IF dl_not_ready(output) THEN "Not Ready" ELSE "Failed">>)
    ELSE Sig("finished_signal", <<TRUE, queue_id, "Complete!">>)

\* The queued call of handle_command_completion a finished_signal makes.
dl_event(n, signals) ==
    [n |-> n, success |-> signals[Len(signals)].args[1],
     status |-> signals[Len(signals)].args[3]]

\* run() leaves through an except branch.
dl_run_except(wk, text) ==
    [wk EXCEPT !.pc = "done", !.log = @ \o dl_except_signals(wk.w.queue_id, text)]

dl_pool_active == {n \in DlWorkers : dl_worker[n].pc = "reading"}

\* A pool thread takes the worker: DownloadWorker.run up to the read loop.
\* Popen starts croc, or raises FileNotFoundError or another exception.
DownloadWorker_run_Popen(n, outcome) ==
    /\ dl_worker[n].pc = "pooled"
    /\ Cardinality(dl_pool_active) < dl_max_thread_count
    /\ IF outcome = "spawned"
       THEN /\ dl_worker' = [dl_worker EXCEPT ![n].pc = "reading", ![n].process = "running",
                               ![n].log = @ \o <<Sig("current_file_signal",
                                                     <<dl_worker[n].w.filename,
                                                       dl_worker[n].w.filesize>>)>>]
            /\ UNCHANGED dl_events
       ELSE /\ dl_worker' = [dl_worker EXCEPT ![n] = dl_run_except(@, outcome)]
            /\ dl_events' = Append(dl_events, dl_event(n, dl_worker'[n].log))
    /\ UNCHANGED <<dl_path_entry, dl_download_code, dl_is_sending, dl_file_queue, dl_uuid,
                   dl_queue_item_widgets, dl_max_thread_count>>
    /\ UNCHANGED notDL

\* One turn of the read loop: readline() returned a line.
DownloadWorker_run_readline(n, line, exists) ==
    /\ dl_worker[n].pc = "reading"
    /\ Len(Emitted(dl_worker[n].log, "output_signal")) < DlMaxLines
    /\ \E r \in {parse_output_line(dl_worker[n].w, line, exists)} :
           dl_worker' = [dl_worker EXCEPT ![n].output = @ \o line, ![n].w = r.w,
                           ![n].log = @ \o <<Sig("output_signal", <<line>>)>> \o r.signals]
    /\ UNCHANGED <<dl_path_entry, dl_download_code, dl_is_sending, dl_file_queue, dl_uuid,
                   dl_queue_item_widgets, dl_max_thread_count, dl_events>>
    /\ UNCHANGED notDL

\* The read loop raises (readline() cannot decode what croc printed).
DownloadWorker_run_raise(n) ==
    /\ dl_worker[n].pc = "reading"
    /\ dl_worker' = [dl_worker EXCEPT ![n] = dl_run_except(@, "Exception")]
    /\ dl_events' = Append(dl_events, dl_event(n, dl_worker'[n].log))
    /\ UNCHANGED <<dl_path_entry, dl_download_code, dl_is_sending, dl_file_queue, dl_uuid,
                   dl_queue_item_widgets, dl_max_thread_count>>
    /\ UNCHANGED notDL

\* readline() returned "": process.wait() and the finished_signal.
DownloadWorker_run_wait(n, returncode) ==
    /\ dl_worker[n].pc = "reading"
    /\ dl_worker' = [dl_worker EXCEPT ![n].pc = "done", ![n].process = "exited",
                        ![n].returncode = returncode,
                        ![n].log = @ \o <<dl_exit_signal(dl_worker[n].w.queue_id, returncode,
                                                         dl_worker[n].output)>>]
    /\ dl_events' = Append(dl_events, dl_event(n, dl_worker'[n].log))
    /\ UNCHANGED <<dl_path_entry, dl_download_code, dl_is_sending, dl_file_queue, dl_uuid,
                   dl_queue_item_widgets, dl_max_thread_count>>
    /\ UNCHANGED notDL

DlPopenOutcomes == {"spawned", "FileNotFoundError", "Exception"}

DlReturnCodes == {0, 1}

NextDL ==
    \/ \E t \in DlEntryTexts : path_entry_edited(t)
    \/ start_download
    \/ \E code \in {"", "c1"} : execute_croc_command(code)
    \/ clear_all
    \/ handle_command_completion
    \/ \E n \in DlWorkers, o \in DlPopenOutcomes : DownloadWorker_run_Popen(n, o)
    \/ \E n \in DlWorkers, line \in DlLines : DownloadWorker_run_readline(n, line, FALSE)
    \/ \E n \in DlWorkers : DownloadWorker_run_raise(n)
    \/ \E n \in DlWorkers, rc \in DlReturnCodes : DownloadWorker_run_wait(n, rc)

\* Workers whose run() holds a croc process.
dl_Running == {n \in DlWorkers : dl_worker[n].pc = "reading"}

\* C3: at most one DownloadWorker is running at any time.
C3_AtMostOneWorker == Cardinality(dl_Running) <= 1

\* The texts of the output_signal emissions that carry croc's lines, joined.
RECURSIVE dl_lines_emitted(_)
dl_lines_emitted(log) ==
    IF log = <<>> THEN ""
    ELSE (IF Head(log).sig = "output_signal" /\ Head(log).args[1] \in DlLines
          THEN Head(log).args[1] ELSE "") \o dl_lines_emitted(Tail(log))

\* C8: a worker whose run() has returned has emitted finished_signal exactly
\* once, as its last signal, after an output_signal for every line it read
\* from croc; a worker still in run() has not emitted it.
C8_FinishedOnceLast ==
    \A n \in DlWorkers :
        /\ Len(Emitted(dl_worker[n].log, "finished_signal"))
              = IF dl_worker[n].pc = "done" THEN 1 ELSE 0
        /\ dl_worker[n].pc = "done"
              => dl_worker[n].log[Len(dl_worker[n].log)].sig = "finished_signal"
        /\ dl_lines_emitted(dl_worker[n].log) = dl_worker[n].output

C8_Witness ==
    \E a, b \in DlWorkers :
        /\ dl_worker[a].pc = "done" /\ dl_worker[a].process = "running"
        /\ Len(Emitted(dl_worker[a].log, "output_signal")) = DlMaxLines + 1
        /\ dl_worker[b].pc = "done" /\ dl_worker[b].process = "None"
        /\ dl_worker[b].log[1].args[1] = "FileNotFoundError"

\* The arguments of the finished_signal a finished worker emitted.
dl_finished_args(n) == dl_worker[n].log[Len(dl_worker[n].log)].args

\* C9: success with 'Complete!' exactly when croc exited with code 0; after a
\* non-zero exit 'Not Ready' if the output contains 'not ready' and 'Failed'
\* otherwise; 'Failed' when croc could not be spawned.
C9_StatusFollowsExit ==
    \A n \in DlWorkers :
        dl_worker[n].pc = "done" =>
            /\ dl_finished_args(n)[1]
                  <=> (dl_worker[n].process = "exited" /\ dl_worker[n].returncode = 0)
            /\ dl_finished_args(n)[1] => dl_finished_args(n)[3] = "Complete!"
            /\ (dl_worker[n].process = "exited" /\ dl_worker[n].returncode # 0)
                  => dl_finished_args(n)[3]
                       = IF Contains(dl_worker[n].output, "not ready")
                         THEN "Not Ready" ELSE "Failed"
            /\ dl_worker[n].process = "None" => dl_finished_args(n)[3] = "Failed"

C9_Witness ==
    \E a, b \in DlWorkers :
        /\ dl_worker[a].pc = "done" /\ dl_worker[a].returncode = 1
        /\ dl_worker[a].output = "peer: Not Ready (1 MB)\n"
        /\ dl_finished_args(a) = <<FALSE, QueueId(a), "Failed">>
        /\ dl_worker[b].pc = "done" /\ dl_worker[b].returncode = 1
        /\ dl_worker[b].output = "croc: room not ready\n"
        /\ dl_finished_args(b) = <<FALSE, QueueId(b), "Not Ready">>

\* C12, as stated: a request made while a transfer is running is put into
\* file_queue.
C12_RequestQueuedWhileSending ==
    (dl_is_sending /\ Strip(dl_path_entry) # "" /\ dl_uuid < DlMaxWorkers)
        => Len(dl_start_download(DlWindow).file_queue) = Len(dl_file_queue) + 1

\* C12, amended: a request made while is_sending is set is refused and leaves
\* the window as it is; an accepted request is started in the same call, so
\* file_queue is empty between handlers and the process_pending_queue of a
\* completion starts no worker.
C12_RequestRefusedWhileSending ==
    /\ dl_file_queue = <<>>
    /\ dl_is_sending =>
          /\ dl_start_download(DlWindow) = DlWindow
          /\ \A code \in {"", "c1"} : dl_execute_croc_command(DlWindow, code) = DlWindow
    /\ (~dl_is_sending /\ Strip(dl_path_entry) # "" /\ dl_uuid < DlMaxWorkers) =>
          /\ dl_start_download(DlWindow).file_queue = <<>>
          /\ dl_start_download(DlWindow).is_sending
          /\ dl_start_download(DlWindow).worker[dl_uuid + 1].pc = "pooled"
    /\ dl_events # <<>> =>
          /\ dl_handle_command_completion(DlWindow, Head(dl_events)).worker = dl_worker
          /\ ~dl_handle_command_completion(DlWindow, Head(dl_events)).is_sending

\* A code is in the entry while a transfer is running and is_sending is set.
C12_Witness ==
    /\ dl_is_sending
    /\ Strip(dl_path_entry) # ""
    /\ dl_uuid < DlMaxWorkers
    /\ \E n \in DlWorkers : dl_worker[n].pc = "reading"

\* ======================================================================
\* Upload tool: SendFileThread._handle_uploading
\* ======================================================================

\* Files in the directory sent (the n of the file counter i/n).
UppMaxFiles == 3

\* Percentages croc prints are the multiples of this step up to 100.
UppPercentStep == 5

UppPercents == {k * UppPercentStep : k \in 0..(100 \div UppPercentStep)}

\* The text of a file counter
FileCount(i, n) == IntToStr(i) \o "/" \o IntToStr(n)

\* file_count.split('/')
SplitSlash(s) ==
    LET k == CHOOSE j \in 1..Len(s) : CharAt(s, j) = "/"
    IN  <<SubSeq(s, 1, k - 1), SubSeq(s, k + 1, Len(s))>>

\* SendFileThread.__init__, the fields _handle_uploading uses
SendFileThread_init(is_directory) ==
    [is_directory |-> is_directory, total_files_in_batch |-> 0,
     last_completed_file_num |-> 0, is_hashing |-> TRUE]

\* if self.total_files_in_batch == 0 and file_count: ...
up_total_files_in_batch(t, file_count) ==
    IF t.total_files_in_batch = 0 /\ file_count # ""
    THEN ParseInt(SplitSlash(file_count)[2]) ELSE t.total_files_in_batch

\* int(current_file_num / self.total_files_in_batch * 100)
up_counted_progress(current_file_num, total_files_in_batch) ==
    FTrunc(FMul(FDivInt(FFromInt(current_file_num), total_files_in_batch), FFromInt(100)))

\* int((self.last_completed_file_num + progress / 100.0) / self.total_files_in_batch * 100)
up_uncounted_progress(last_completed_file_num, progress, total_files_in_batch) ==
    FTrunc(FMul(FDivInt(FAdd(FFromInt(last_completed_file_num),
                             FDivInt(FFromInt(progress), 100)),
                        total_files_in_batch),
                FFromInt(100)))

\* The value _handle_uploading emits on progress_signal; total is
\* total_files_in_batch after the first if.
up_progress_value(t, progress, file_count, total) ==
    IF ~t.is_directory THEN progress
    ELSE IF total <= 0 THEN 0
    ELSE IF file_count # ""
    THEN up_counted_progress(ParseInt(SplitSlash(file_count)[1]), total)
    ELSE up_uncounted_progress(t.last_completed_file_num, progress, total)

\* The thread's fields after _handle_uploading; total as above.
up_thread_after(t, file_count, total) ==
    IF ~t.is_directory THEN [t EXCEPT !.is_hashing = FALSE]
    ELSE [t EXCEPT !.is_hashing = FALSE, !.total_files_in_batch = total,
                   !.last_completed_file_num =
                       IF total > 0 /\ file_count # ""
                       THEN ParseInt(SplitSlash(file_count)[1]) ELSE @]

\* SendFileThread._handle_uploading(match): the fields afterwards and the
\* signals emitted, in order.  A group that did not take part is "".
up_handle_uploading(t, g) ==
    [t |-> up_thread_after(t, g.file_count, up_total_files_in_batch(t, g.file_count)),
     signals |-> <<Sig("progress_signal",
                       <<up_progress_value(t, ParseInt(g.progress_str), g.file_count,
                                           up_total_files_in_batch(t, g.file_count))>>)>>
                 \o (IF g.speed # "" THEN <<Sig("speed_signal", <<Strip(g.speed)>>)>> ELSE <<>>)
                 \o <<Sig("status_update_signal", <<"Uploading file...", "yellow">>)>>
                 \o (IF g.time_remaining # ""
                     THEN <<Sig("time_remaining_signal", <<Strip(g.time_remaining)>>)>>
                     ELSE <<>>)]

\* The groups of the progress lines considered: a percentage, and a file
\* counter i/n with 1 <= i <= n or none.
UppMatches ==
    {[filename |-> "a.txt", progress_str |-> IntToStr(p), size |-> "1.0/2.0 MB",
      speed |-> "3.1 MB/s", time_remaining |-> "", file_count |-> fc] :
        p \in UppPercents,
        fc \in {""} \cup {FileCount(i, n) : i \in 1..UppMaxFiles, n \in 1..UppMaxFiles}}

UppNoMatch ==
    [filename |-> "", progress_str |-> "", size |-> "", speed |-> "",
     time_remaining |-> "", file_count |-> ""]

InitUPP ==
    /\ upp_thread \in {SendFileThread_init(d) : d \in BOOLEAN}
    /\ upp_match = UppNoMatch
    /\ upp_signals = <<>>

\* No directory is being sent: the state of these variables in the
\* specifications of the other tools.
RestUPP == InitUPP /\ ~upp_thread.is_directory

\* parse_output_line matched the progress pattern: self._handle_uploading(match)
SendFileThread_handle_uploading(g) ==
    /\ \E r \in {up_handle_uploading(upp_thread, g)} :
           /\ upp_thread' = r.t
           /\ upp_signals' = r.signals
    /\ upp_match' = g
    /\ UNCHANGED notUPP

NextUPP ==
    \E g \in {h \in UppMatches :
                h.file_count # "" =>
                    ParseInt(SplitSlash(h.file_count)[1]) <= ParseInt(SplitSlash(h.file_count)[2])} :
        SendFileThread_handle_uploading(g)

\* C6: for a directory upload every value emitted on progress_signal lies in
\* 0..100.
C6_DirectoryProgressInRange ==
    upp_thread.is_directory =>
        \A k \in 1..Len(upp_signals) :
            upp_signals[k].sig = "progress_signal" => upp_signals[k].args[1] \in 0..100

\* ======================================================================
\* Upload tool: MainWindow, its file queue and its SendFileThreads
\* ======================================================================

\* Files added to the queue in one run of the window.
UpMaxFiles == 3

UpIds == 1..UpMaxFiles

\* Codes the settings popup saves (any text, the empty one included, is a
\* code to the window: it only tests "is not None").
UpCodes == {"abcdef"}

\* The main window's fields as one record.
UpWindow ==
    [code |-> up_code, is_sending |-> up_is_sending, file_queue |-> up_file_queue,
     uuid |-> up_uuid, item |-> up_item, thread |-> up_thread,
     active_threads |-> up_active_threads, events |-> up_events,
     status_label |-> up_status_label, progress_bar |-> up_progress_bar,
     dot_animation |-> up_dot_animation, clear_message_timer |-> up_clear_message_timer,
     current_status_message |-> up_current_status_message, dot_count |-> up_dot_count,
     closed |-> up_closed]

UpWindowBecomes(s) ==
    /\ up_code' = s.code
    /\ up_is_sending' = s.is_sending
    /\ up_file_queue' = s.file_queue
    /\ up_uuid' = s.uuid
    /\ up_item' = s.item
    /\ up_thread' = s.thread
    /\ up_active_threads' = s.active_threads
    /\ up_events' = s.events
    /\ up_status_label' = s.status_label
    /\ up_progress_bar' = s.progress_bar
    /\ up_dot_animation' = s.dot_animation
    /\ up_current_status_message' = s.current_status_message
    /\ up_dot_count' = s.dot_count
    /\ up_clear_message_timer' = s.clear_message_timer
    /\ up_closed' = s.closed

\* _initialize_state and _deferred_init_data: the code comes from the
\* settings file or the settings popup, or stays None.
InitUP ==
    /\ up_code \in {"None"} \cup UpCodes
    /\ up_timer = TRUE
    /\ up_is_sending = FALSE
    /\ up_file_queue = <<>>
    /\ up_uuid = 0
    /\ up_item = [id \in UpIds |-> "none"]
    /\ up_thread = [id \in UpIds |-> [pc |-> "none", is_cancelled |-> FALSE]]
    /\ up_active_threads = <<>>
    /\ up_events = <<>>
    /\ up_status_label = ""
    /\ up_progress_bar = 0
    /\ up_dot_animation = FALSE
    /\ up_current_status_message = ""
    /\ up_dot_count = 0
    /\ up_clear_message_timer = FALSE
    /\ up_lines = [id \in UpIds |-> 0]
    /\ up_closed = {}
    /\ up_main = [pc |-> "event loop", threads |-> <<>>]

\* The window without a code, left alone in the specifications of the other
\* tools.
RestUP == InitUP /\ up_code = "None"

\* MainWindow.start_next_transfer
up_start_next_transfer(s) ==
    IF ~(s.file_queue # <<>> /\ ~s.is_sending) THEN s
    ELSE [s EXCEPT !.is_sending = TRUE, !.file_queue = Tail(@),
                   !.item[Head(s.file_queue)] = "started",
                   !.thread[Head(s.file_queue)] = [pc |-> "started", is_cancelled |-> FALSE],
                   !.active_threads = Append(@, Head(s.file_queue)),
                   !.progress_bar = 0]

\* MainWindow.add_file_to_queue
up_add_file_to_queue(s) ==
    IF s.code # "None"
    THEN up_start_next_transfer([s EXCEPT !.uuid = @ + 1, !.item[s.uuid + 1] = "queued",
                                          !.file_queue = Append(@, s.uuid + 1)])
    ELSE [s EXCEPT !.uuid = @ + 1, !.item[s.uuid + 1] = "queued",
                   !.file_queue = Append(@, s.uuid + 1)]

\* MainWindow._remove_item_from_queue_by_id
up_remove_item_from_queue_by_id(s, queue_id) ==
    [s EXCEPT !.file_queue = SelectSeq(@, LAMBDA id : id # queue_id),
              !.item[queue_id] = IF @ = "queued" THEN "removed" ELSE @]

\* MainWindow.save_code_to_json(code)
up_save_code_to_json(s, code) == up_start_next_transfer([s EXCEPT !.code = code])

\* handle_command_completion(success, status_label, progress_bar, window)
up_handle_command_completion(s, success) ==
    up_start_next_transfer(
        [s EXCEPT !.status_label = IF success THEN "Complete!" ELSE "Failed.",
                  !.progress_bar = 0,
                  !.is_sending = FALSE])

\* "Loading..." in message or "Uploading file..." in message
up_animated(message) == Contains(message, "Loading...") \/ Contains(message, "Uploading file...")

\* "." * (dot_count % 4)
up_dots(dot_count) == SubSeq("...", 1, dot_count % 4)

\* MainWindow.update_dots
up_update_dots(s) ==
    IF up_animated(s.current_status_message)
    THEN [s EXCEPT !.status_label = s.current_status_message \o up_dots(s.dot_count),
                   !.dot_count = @ + 1]
    ELSE [s EXCEPT !.status_label = s.current_status_message]

\* MainWindow.update_animated_status(message, color): the message is kept,
\* dot_count starts again, update_dots writes the label, and the dot timer is
\* started for an animated message and stopped for any other.
up_update_animated_status(s, message) ==
    [up_update_dots([s EXCEPT !.current_status_message = message, !.dot_count = 0])
        EXCEPT !.dot_animation = up_animated(message)]

\* MainWindow.update_progress_bar(progress, is_hashing)
up_update_progress_bar(s, progress) == [s EXCEPT !.progress_bar = progress]

\* MainWindow.remove_finished_thread(thread)
up_remove_finished_thread(s, id) ==
    [s EXCEPT !.active_threads = SelectSeq(@, LAMBDA t : t # id)]

UpSig(name, id, success) == [sig |-> name, id |-> id, success |-> success, arg |-> ""]
UpSigArg(name, id, arg) == [sig |-> name, id |-> id, success |-> FALSE, arg |-> arg]

\* What run() emits to the main window from process.wait() on, for a croc
\* that ended with the given outcome.
up_end_signals_mut(id, outcome, is_cancelled) ==
    (IF outcome = "exit0"
     THEN <<UpSig("finished_signal", id, TRUE),
            UpSigArg("status_update_signal", id, "Completed!"),
            UpSig("queue_id_signal", id, FALSE)>>
     ELSE IF outcome = "exitN" THEN <<>>
     ELSE <<UpSig("finished_signal", id, FALSE)>>)
    \o <<UpSig("thread_finished_signal", id, FALSE)>>

up_end_signals(id, outcome, is_cancelled) ==
    (IF outcome = "exit0"
     THEN <<UpSig("finished_signal", id, TRUE),
            UpSigArg("status_update_signal", id, "Completed!"),
            UpSig("queue_id_signal", id, FALSE)>>
     ELSE IF outcome = "exitN" /\ is_cancelled THEN <<>>
     ELSE <<UpSig("finished_signal", id, FALSE)>>)
    \o <<UpSig("thread_finished_signal", id, FALSE)>>

\* MainWindow.clear_all after its loop over active_threads
up_clear_all(s) ==
    up_start_next_transfer(
        [s EXCEPT !.active_threads = <<>>,
                  !.status_label = "Cleared!",
                  !.progress_bar = 0,
                  !.dot_animation = FALSE,
                  !.clear_message_timer = TRUE,
                  !.closed = @ \cup Range(s.active_threads),
                  !.is_sending = FALSE])

UpOutcomes == {"exit0", "exitN", "exception"}

\* SendFileThreads that are running.
up_Running == {id \in UpIds : up_thread[id].pc \in {"started", "reading"}}

\* The main thread is in its event loop, where it runs one handler at a
\* time.
up_in_event_loop == up_main.pc = "event loop"

\* QTimer.singleShot(100, self.start_next_transfer) of _deferred_init_data
QTimer_start_next_transfer ==
    /\ up_in_event_loop
    /\ up_timer
    /\ up_timer' = FALSE
    /\ UpWindowBecomes(up_start_next_transfer(UpWindow))
    /\ UNCHANGED up_lines
    /\ UNCHANGED up_main
    /\ UNCHANGED notUP

\* A file is dropped, picked or pasted: MainWindow.add_file_to_queue
add_file_to_queue ==
    /\ up_in_event_loop
    /\ up_uuid < UpMaxFiles
    /\ UpWindowBecomes(up_add_file_to_queue(UpWindow))
    /\ UNCHANGED <<up_timer, up_lines>>
    /\ UNCHANGED up_main
    /\ UNCHANGED notUP

\* The remove button of a queue entry: MainWindow.remove_from_queue
remove_from_queue(id) ==
    /\ up_in_event_loop
    /\ id \in Range(up_file_queue)
    /\ UpWindowBecomes(up_remove_item_from_queue_by_id(UpWindow, id))
    /\ UNCHANGED <<up_timer, up_lines>>
    /\ UNCHANGED up_main
    /\ UNCHANGED notUP

\* SettingsPopup.save_settings -> MainWindow.save_code_to_json(code)
save_code_to_json(code) ==
    /\ up_in_event_loop
    /\ UpWindowBecomes(up_save_code_to_json(UpWindow, code))
    /\ UNCHANGED <<up_timer, up_lines>>
    /\ UNCHANGED up_main
    /\ UNCHANGED notUP

\* The clear button: the main thread enters MainWindow.clear_all and its
\* loop over active_threads.  Until clear_all returns the main thread runs
\* no other handler, while the SendFileThreads go on.
up_clear_all_clicked ==
    /\ up_in_event_loop
    /\ up_main' = [pc |-> "cancel", threads |-> up_active_threads]
    /\ UNCHANGED <<up_code, up_timer, up_is_sending, up_file_queue, up_uuid, up_item,
                   up_thread, up_active_threads, up_events, up_status_label,
                   up_progress_bar, up_dot_animation, up_current_status_message, up_dot_count, up_clear_message_timer, up_lines,
                   up_closed>>
    /\ UNCHANGED notUP

\* One turn of the loop: thread.is_cancelled = True and
\* thread.close_process(), which kills croc if the thread has started it.
up_clear_all_cancel ==
    /\ up_main.pc = "cancel"
    /\ up_main.threads # <<>>
    /\ up_thread' = [up_thread EXCEPT ![Head(up_main.threads)].is_cancelled = TRUE]
    /\ up_main' = [up_main EXCEPT !.pc = "wait"]
    /\ UNCHANGED <<up_code, up_timer, up_is_sending, up_file_queue, up_uuid, up_item,
                   up_active_threads, up_events, up_status_label, up_progress_bar,
                   up_dot_animation, up_current_status_message, up_dot_count, up_clear_message_timer, up_lines, up_closed>>
    /\ UNCHANGED notUP

\* if thread.isRunning(): thread.wait() -- the main thread goes on to the
\* next thread once run() has returned.
up_clear_all_wait ==
    /\ up_main.pc = "wait"
    /\ up_thread[Head(up_main.threads)].pc \notin {"started", "reading"}
    /\ up_main' = [pc |-> "cancel", threads |-> Tail(up_main.threads)]
    /\ UNCHANGED <<up_code, up_timer, up_is_sending, up_file_queue, up_uuid, up_item,
                   up_thread, up_active_threads, up_events, up_status_label,
                   up_progress_bar, up_dot_animation, up_current_status_message, up_dot_count, up_clear_message_timer, up_lines,
                   up_closed>>
    /\ UNCHANGED notUP

\* The loop is over: the rest of MainWindow.clear_all.
up_clear_all_return ==
    /\ up_main.pc = "cancel"
    /\ up_main.threads = <<>>
    /\ up_main' = [pc |-> "event loop", threads |-> <<>>]
    /\ UpWindowBecomes(up_clear_all(UpWindow))
    /\ UNCHANGED <<up_timer, up_lines>>
    /\ UNCHANGED notUP

\* The main thread handles the oldest queued signal.
up_handle_signal ==
    /\ up_in_event_loop
    /\ up_events # <<>>
    /\ UpWindowBecomes(
           IF Head(up_events).sig = "finished_signal"
           THEN up_handle_command_completion(
                    [UpWindow EXCEPT !.events = Tail(@), !.closed = @ \cup {Head(up_events).id}],
                    Head(up_events).success)
           ELSE IF Head(up_events).sig = "queue_id_signal"
           THEN up_remove_item_from_queue_by_id([UpWindow EXCEPT !.events = Tail(@)],
                                                Head(up_events).id)
           ELSE IF Head(up_events).sig = "status_update_signal"
           THEN up_update_animated_status([UpWindow EXCEPT !.events = Tail(@)],
                                          Head(up_events).arg)
           ELSE IF Head(up_events).sig \in {"progress_signal", "hashing_progress_signal"}
           THEN up_update_progress_bar([UpWindow EXCEPT !.events = Tail(@)],
                                       Head(up_events).arg)
           ELSE IF Head(up_events).sig = "hashing_finished_signal"
           THEN up_update_progress_bar([UpWindow EXCEPT !.events = Tail(@)], 100)
           ELSE up_remove_finished_thread([UpWindow EXCEPT !.events = Tail(@)],
                                          Head(up_events).id))
    /\ UNCHANGED <<up_timer, up_lines>>
    /\ UNCHANGED up_main
    /\ UNCHANGED notUP

\* SendFileThread.run up to the read loop: Popen starts croc, or raises.
SendFileThread_run_Popen(id, outcome) ==
    /\ up_thread[id].pc = "started"
    /\ IF outcome = "exception"
       THEN /\ up_thread' = [up_thread EXCEPT ![id].pc = "finished"]
            /\ up_events' = up_events \o up_end_signals(id, outcome, up_thread[id].is_cancelled)
       ELSE /\ up_thread' = [up_thread EXCEPT ![id].pc = "reading"]
            /\ up_events' = Append(up_events, UpSig("queue_id_signal", id, FALSE))
    /\ UNCHANGED <<up_code, up_timer, up_is_sending, up_file_queue, up_uuid, up_item,
                   up_active_threads, up_status_label, up_progress_bar, up_dot_animation, up_current_status_message, up_dot_count,
                   up_clear_message_timer, up_lines, up_closed>>
    /\ UNCHANGED up_main
    /\ UNCHANGED notUP

\* croc ends (or the read loop raises): the rest of SendFileThread.run.
SendFileThread_run_wait(id, outcome) ==
    /\ up_thread[id].pc = "reading"
    /\ up_thread' = [up_thread EXCEPT ![id].pc = "finished"]
    /\ up_events' = up_events \o up_end_signals(id, outcome, up_thread[id].is_cancelled)
    /\ UNCHANGED <<up_code, up_timer, up_is_sending, up_file_queue, up_uuid, up_item,
                   up_active_threads, up_status_label, up_progress_bar, up_dot_animation, up_current_status_message, up_dot_count,
                   up_clear_message_timer, up_lines, up_closed>>
    /\ UNCHANGED up_main
    /\ UNCHANGED notUP

\* The signals of parse_output_line that are connected to the status label
\* and the progress bar, for a progress line of a file.
UpMaxLines == 1
UpLineKinds == {"uploading"}
up_line_signals(id, kind) ==
    IF kind = "uploading"
    THEN <<UpSigArg("progress_signal", id, 50),
           UpSigArg("status_update_signal", id, "Uploading file...")>>
    ELSE <<>>

\* The read loop of SendFileThread.run reads one line: parse_output_line.
SendFileThread_run_readline(id, kind) ==
    /\ up_thread[id].pc = "reading"
    /\ up_lines[id] < UpMaxLines
    /\ up_lines' = [up_lines EXCEPT ![id] = @ + 1]
    /\ up_events' = up_events \o up_line_signals(id, kind)
    /\ UNCHANGED <<up_code, up_timer, up_is_sending, up_file_queue, up_uuid, up_item, up_thread,
                   up_active_threads, up_status_label, up_progress_bar, up_dot_animation, up_current_status_message, up_dot_count,
                   up_clear_message_timer, up_closed>>
    /\ UNCHANGED up_main
    /\ UNCHANGED notUP

\* clear_message_timer fires: MainWindow.clear_message_timeout
clear_message_timeout ==
    /\ up_in_event_loop
    /\ up_clear_message_timer
    /\ up_status_label' = ""
    /\ up_clear_message_timer' = FALSE
    /\ UNCHANGED <<up_code, up_timer, up_is_sending, up_file_queue, up_uuid, up_item, up_thread,
                   up_active_threads, up_events, up_progress_bar, up_dot_animation, up_current_status_message, up_dot_count, up_lines,
                   up_closed>>
    /\ UNCHANGED up_main
    /\ UNCHANGED notUP

NextUP ==
    \/ QTimer_start_next_transfer
    \/ add_file_to_queue
    \/ \E id \in UpIds : remove_from_queue(id)
    \/ \E code \in UpCodes : save_code_to_json(code)
    \/ up_clear_all_clicked
    \/ up_clear_all_cancel
    \/ up_clear_all_wait
    \/ up_clear_all_return
    \/ up_handle_signal
    \/ \E id \in UpIds, o \in {"spawned", "exception"} : SendFileThread_run_Popen(id, o)
    \/ \E id \in UpIds, o \in UpOutcomes : SendFileThread_run_wait(id, o)
    \/ clear_message_timeout

\* C4: at most one SendFileThread is running at any time.
C4_AtMostOneThread == Cardinality(up_Running) <= 1

\* C10: with a code set, every file in the queue is eventually handed to a
\* SendFileThread or removed by the user, and is_sending does not stay true
\* while no thread is running.
C10_QueuedFilesAreSent ==
    /\ \A id \in UpIds :
           (up_item[id] = "queued" /\ up_code # "None") ~> (up_item[id] # "queued")
    /\ (up_is_sending /\ up_Running = {}) ~> (~up_is_sending \/ up_Running # {})

C10_Witness ==
    \E id \in UpIds :
        /\ up_item[id] = "started"
        /\ up_thread[id].is_cancelled
        /\ up_thread[id].pc = "finished"
        /\ \E other \in UpIds : up_item[other] = "queued"
        /\ up_is_sending

\* Firings of the dot timer explored after a status message
UpMaxDots == 3

\* dot_animation_timer (500 ms) fires: MainWindow.update_dots
update_dots ==
    /\ up_in_event_loop
    /\ up_dot_animation
    /\ up_dot_count < UpMaxDots
    /\ UpWindowBecomes(up_update_dots(UpWindow))
    /\ UNCHANGED <<up_timer, up_lines, up_main>>
    /\ UNCHANGED notUP

\* The window with threads whose read loop reads croc's progress lines: the
\* status messages that start the dot timer come from these lines.
NextUPS ==
    \/ NextUP
    \/ \E id \in UpIds, kind \in UpLineKinds : SendFileThread_run_readline(id, kind)
    \/ update_dots

\* C24: when the main thread handles a signal of a transfer that was
\* completed (handle_command_completion ran for it) or cancelled by
\* clear_all, and a later transfer has been started, the status label, the
\* progress bar and the dot animation stay as they are.
C24_NoLateSignal ==
    [][(/\ up_events # <<>>
        /\ up_events' = Tail(up_events)
        /\ Head(up_events).id \in up_closed
        /\ \E next \in UpIds : next > Head(up_events).id /\ up_thread[next].pc # "none")
           => /\ up_status_label' = up_status_label
              /\ up_progress_bar' = up_progress_bar
              /\ up_dot_animation' = up_dot_animation]_vars

\* C25: no SendFileThread is started while code is None.
C25_NoStartWithoutCode ==
    [][\A id \in UpIds :
           (up_thread[id].pc = "none" /\ up_thread'[id].pc # "none") => up_code' # "None"]_vars

\* ======================================================================
\* Upload tool: SendFileThread.parse_output_line
\* ======================================================================

\* r'Hashing (.+?)\s+(\d+)%\s+.*\((.+?)\).*'
ReHashing == <<StrLit("Hashing "), AnyCh("+?"), SpcCh("+"), DigCh("+"), LitCh("%"), SpcCh("+"), AnyCh("*"), LitCh("("), AnyCh("+?"), LitCh(")"), AnyCh("*")>>
\* r'(.+?)\s+(\d+)%\s+.*\((.+?)(?:,\s*(.+?))?\)\s*(?:\((.+?)\))?\s*(\d+/\d+)?'
ReUploading == <<AnyCh("+?"), SpcCh("+"), DigCh("+"), LitCh("%"), SpcCh("+"), AnyCh("*"), LitCh("("), AnyCh("+?"), OptBegin(13), LitCh(","), SpcCh("*"), AnyCh("+?"), OptEnd, LitCh(")"), SpcCh("*"), OptBegin(20), LitCh("("), AnyCh("+?"), LitCh(")"), OptEnd, SpcCh("*"), OptBegin(26), DigCh("+"), LitCh("/"), DigCh("+"), OptEnd>>
\* r'Sending (\d+) files(?: and (\d+) folders)? \(([^)]+)\)'
ReSending == <<StrLit("Sending "), DigCh("+"), StrLit(" files"), OptBegin(8), StrLit(" and "), DigCh("+"), StrLit(" folders"), OptEnd, StrLit(" ("), NotCh(")", "+"), LitCh(")")>>
\* r'Code is:'
ReCode == <<StrLit("Code is:")>>

\* match.group(n) for the group made of atoms a..b: "" when the group took
\* no part in the match (None)
OptGroup(mt, s, a, b) == IF mt.ends[b] = 0 THEN "" ELSE Group(mt, s, a, b)

\* SendFileThread.__init__: the fields parse_output_line uses; up holds those
\* of _handle_uploading.
SendFileThread_fields(is_directory, total_expected_files, hashing_complete) ==
    [up |-> SendFileThread_init(is_directory), filename |-> "a.txt",
     total_expected_files |-> total_expected_files, current_hashing_file_count |-> 0,
     hashing_complete |-> hashing_complete]

\* int((self.current_hashing_file_count / self.total_expected_files) * 100)
upl_sending_progress(t, current_files) ==
    IF t.total_expected_files > 0 THEN up_counted_progress(current_files, t.total_expected_files)
    ELSE 0

\* SendFileThread._handle_sending(match)
upl_handle_sending(t, mt, s) ==
    [t |-> [t EXCEPT !.current_hashing_file_count = ParseInt(Group(mt, s, 2, 2)),
                     !.up.is_hashing = TRUE],
     handler |-> "_handle_sending",
     signals |-> <<Sig("current_file_signal", <<t.filename, Group(mt, s, 10, 10)>>),
                   Sig("status_update_signal", <<"Loading...", "yellow">>),
                   Sig("hashing_progress_signal",
                       <<upl_sending_progress(t, ParseInt(Group(mt, s, 2, 2)))>>)>>]

\* SendFileThread._handle_code(match)
upl_handle_code(t) ==
    IF t.hashing_complete THEN [t |-> t, handler |-> "_handle_code", signals |-> <<>>]
    ELSE [t |-> [t EXCEPT !.hashing_complete = TRUE, !.up.is_hashing = FALSE],
          handler |-> "_handle_code",
          signals |-> <<Sig("hashing_progress_signal", <<100>>),
                        Sig("hashing_finished_signal", <<>>),
                        Sig("status_update_signal", <<"Ready to Upload", "#0058d3">>),
                        Sig("time_remaining_signal", <<"">>)>>]

\* SendFileThread._handle_hashing(match); the time shown is that of the
\* clock, written "elapsed".
upl_handle_hashing(t, mt, s) ==
    [t |-> [t EXCEPT !.up.is_hashing = TRUE],
     handler |-> "_handle_hashing",
     signals |-> <<Sig("hashing_progress_signal", <<ParseInt(Group(mt, s, 4, 4))>>),
                   Sig("speed_signal", <<Strip(Group(mt, s, 9, 9))>>),
                   Sig("status_update_signal", <<"Loading...", "yellow">>),
                   Sig("time_remaining_signal", <<"elapsed">>)>>]

\* match.groups() of the progress pattern
upl_uploading_groups(mt, s) ==
    [filename |-> Group(mt, s, 1, 1), progress_str |-> Group(mt, s, 3, 3),
     size |-> Group(mt, s, 8, 8), speed |-> OptGroup(mt, s, 12, 12),
     time_remaining |-> OptGroup(mt, s, 18, 18), file_count |-> OptGroup(mt, s, 23, 25)]

\* self._handle_uploading(match)
upl_handle_uploading(t, g) ==
    [t |-> [t EXCEPT !.up = up_handle_uploading(t.up, g).t],
     handler |-> "_handle_uploading",
     signals |-> up_handle_uploading(t.up, g).signals]

\* The elif chain of parse_output_line from its second pattern on.
upl_chain(t, s, uploading, sending, code) ==
    IF uploading.ok THEN upl_handle_uploading(t, upl_uploading_groups(uploading, s))
    ELSE IF sending.ok THEN upl_handle_sending(t, sending, s)
    ELSE IF code.ok THEN upl_handle_code(t)
    ELSE [t |-> t, handler |-> "none", signals |-> <<>>]

upl_first_mut(t, s, hashing) ==
    IF hashing.ok /\ ~ReMatch(ReUploading, s).ok THEN upl_handle_hashing(t, hashing, s)
    ELSE upl_chain(t, s, ReMatch(ReUploading, s), ReSearch(ReSending, s), ReSearch(ReCode, s))

upl_first(t, s, hashing) ==
    IF hashing.ok THEN upl_handle_hashing(t, hashing, s)
    ELSE upl_chain(t, s, ReMatch(ReUploading, s), ReSearch(ReSending, s), ReSearch(ReCode, s))

\* SendFileThread.parse_output_line(line): the fields afterwards, the
\* handler called and the signals emitted.
upl_parse_output_line(t, line) == upl_first(t, Strip(line), ReMatch(ReHashing, Strip(line)))

UplNames == {"a.txt", "my file.txt"}
UplPercents == {"0", "50", "100"}

\* What croc prints while it hashes: 'Hashing <name> <p>% <bar> (<speed>)',
\* also followed by more text.
UplHashingTexts ==
    {"Hashing " \o n \o " " \o p \o "% |##  | (3.1 MB/s)" \o e :
         n \in UplNames, p \in UplPercents, e \in {"", " 1/2", " Code is: x"}}

\* What croc prints while it sends a file.
UplUploadingTexts ==
    {n \o " " \o p \o "% |##  | " \o e :
         n \in UplNames, p \in UplPercents,
         e \in {"(1.0/2.0 MB, 3.1 MB/s)", "(1.0/2.0 MB, 3.1 MB/s) 1/2", "(1.0/2.0 MB)",
                "(1.0/2.0 MB, 3.1 MB/s) (2s) 2/2", "(1.0/2.0 MB,3.1 MB/s)(2s)",
                "(1.0/2.0 MB, 3.1 MB/s) Code is: x"}}

UplOtherTexts ==
    {"Sending 1 files (1.0 MB)", "Sending 2 files and 1 folders (3.0 MB)",
     "Sending 2 files (3.0 MB) 50% (x)", "a Sending 1 files (1.0 MB)",
     "Code is: 1234-a-b", "Code is: 50% of (it)", "On the other computer run Code is: x",
     "", "croc: error"}

UplTexts == UplHashingTexts \cup UplUploadingTexts \cup UplOtherTexts

\* The line as readline() returns it.
UplLines == {pre \o x \o "\n" : pre \in {"", "  "}, x \in UplTexts}

InitUPL ==
    /\ upl_pc = "ready"
    /\ upl_line \in UplLines
    /\ upl_thread \in {SendFileThread_fields(d, n, h) : d \in BOOLEAN, n \in {0, 2}, h \in BOOLEAN}
    /\ upl_handler = "none"
    /\ upl_signals = <<>>

RestUPL == InitUPL /\ upl_line = "\n" /\ upl_thread = SendFileThread_fields(FALSE, 0, FALSE)

\* self.parse_output_line(line) in the read loop of run()
SendFileThread_parse_output_line ==
    /\ upl_pc = "ready"
    /\ upl_pc' = "parsed"
    /\ \E r \in {upl_parse_output_line(upl_thread, upl_line)} :
           /\ upl_thread' = r.t
           /\ upl_handler' = r.handler
           /\ upl_signals' = r.signals
    /\ UNCHANGED upl_line
    /\ UNCHANGED notUPL

NextUPL == SendFileThread_parse_output_line

\* The handlers whose pattern the line matches, in the order of the chain.
upl_Matching ==
    (IF ReMatch(ReHashing, Strip(upl_line)).ok THEN <<"_handle_hashing">> ELSE <<>>)
    \o (IF ReMatch(ReUploading, Strip(upl_line)).ok THEN <<"_handle_uploading">> ELSE <<>>)
    \o (IF ReSearch(ReSending, Strip(upl_line)).ok THEN <<"_handle_sending">> ELSE <<>>)
    \o (IF ReSearch(ReCode, Strip(upl_line)).ok THEN <<"_handle_code">> ELSE <<>>)

\* C17: the handler called for a line is the first, in the order hashing,
\* uploading, sending, code, whose pattern the line matches, and only that
\* handler's signals are emitted; a line 'Hashing <name> <p>% ... (<speed>)'
\* emits hashing_progress_signal(p) and no progress_signal.
C17_OneHandlerByPriority ==
    upl_pc = "parsed" =>
        /\ upl_handler = (IF upl_Matching = <<>> THEN "none" ELSE Head(upl_Matching))
        /\ upl_handler # "_handle_uploading" => Emitted(upl_signals, "progress_signal") = <<>>
        /\ upl_handler \notin {"_handle_hashing", "_handle_sending", "_handle_code"} =>
               Emitted(upl_signals, "hashing_progress_signal") = <<>>
        /\ \A x \in UplHashingTexts : Strip(upl_line) = x =>
               /\ upl_handler = "_handle_hashing"
               /\ Emitted(upl_signals, "progress_signal") = <<>>
               /\ Len(Emitted(upl_signals, "hashing_progress_signal")) = 1
               /\ \E n \in UplNames, e \in {"", " 1/2", " Code is: x"} :
                      x = "Hashing " \o n \o " "
                          \o IntToStr(Emitted(upl_signals, "hashing_progress_signal")[1].args[1])
                          \o "% |##  | (3.1 MB/s)" \o e

\* A hashing line that the progress pattern matches as well has been parsed.
C17_Witness ==
    /\ upl_pc = "parsed"
    /\ Strip(upl_line) \in UplHashingTexts
    /\ Len(upl_Matching) >= 3
    /\ upl_handler = "_handle_hashing"

\* ======================================================================
\* iMShare: the download tool and the upload tool are two programs; a process
\* runs the main block of one of them.
\* ======================================================================

InitSH == sh_tool \in {"download", "upload"}

RestSH == sh_tool = "download"

NextSH ==
    \/ sh_tool = "download" /\ NextDL
    \/ sh_tool = "upload" /\ NextUP

\* C13: a queue id is handed to a worker once: the worker (thread) of a queue
\* id is created for an id that has none yet, and a worker that has been
\* created, whether it runs, has failed or was cancelled, is never created
\* again.  The download tool creates a worker only for the request that drew
\* the id, the upload tool only for an id waiting in file_queue.
C13_NoRetry ==
    [][/\ \A n \in DlWorkers :
             /\ dl_worker[n].pc # "none" => dl_worker'[n].pc # "none"
             /\ dl_worker[n].pc \in {"reading", "done"} => dl_worker'[n].pc # "pooled"
             /\ dl_worker[n].pc = "pooled" /\ dl_worker'[n].pc = "pooled" =>
                   dl_worker'[n].code_prefix = dl_worker[n].code_prefix
             /\ dl_worker[n].pc = "none" /\ dl_worker'[n].pc # "none" =>
                   /\ dl_worker'[n].pc = "pooled"
                   /\ dl_uuid' = dl_uuid + 1 /\ n = dl_uuid'
       /\ \A id \in UpIds :
             /\ up_thread[id].pc # "none" => up_thread'[id].pc # "none"
             /\ up_thread[id].pc \in {"reading", "finished"} => up_thread'[id].pc # "started"
             /\ up_item[id] \in {"started", "removed"} => up_item'[id] = up_item[id]
             /\ up_thread[id].pc = "none" /\ up_thread'[id].pc # "none" =>
                   /\ up_thread'[id].pc = "started"
                   /\ up_item'[id] = "started"
                   /\ IF up_file_queue # <<>> THEN id = Head(up_file_queue)
                      ELSE id = up_uuid' /\ up_uuid' = up_uuid + 1
                   /\ id \notin Range(up_file_queue')
             /\ up_thread[id].pc # "none" => id \notin Range(up_file_queue)]_vars

\* A download that failed or was cleared and an upload that failed or was
\* cancelled, each followed by a later transfer with a new queue id.
C13_Witness ==
    \/ /\ sh_tool = "download"
       /\ \E a, b \in DlWorkers : /\ a < b
                                   /\ dl_worker[a].pc = "done" /\ dl_worker[a].returncode = 1
                                   /\ dl_worker[b].pc = "reading"
                                   /\ dl_worker[b].code_prefix = dl_worker[a].code_prefix
    \/ /\ sh_tool = "upload"
       /\ \E a, b \in UpIds : /\ a < b
                               /\ up_thread[a].pc = "finished" /\ up_thread[a].is_cancelled
                               /\ up_thread[b].pc = "reading"

\* ======================================================================
\* iMShare: handle_instance_check.  Instances of a tool are started, each
\* runs handle_instance_check step by step (every file operation and the
\* kill are steps of their own, so the checks of two instances may
\* interleave), windows are closed, and the operating system gives a new
\* process any PID that no live process holds.  The application data
\* directory exists.
\* ======================================================================

IcMaxPid == 3
IcMaxStarts == 4

Pids == 1..IcMaxPid

\* f.write(text) at the start of a file opened with 'w': what is already
\* behind the written text stays.
icr_write_at_0(content, text) == text \o SubSeq(content, Len(text) + 1, Len(content))
\* int(s) raises ValueError
icr_ValueError(s) == s = "" \/ \E k \in 1..Len(s) : ~IsDigit(CharAt(s, k))

InitIC ==
    /\ ic_lock = "absent"
    /\ ic_alive = {}
    /\ ic_foreign \in SUBSET Pids
    /\ ic_newest = 0
    /\ ic_started = 0
    /\ ic_pc = [pid \in Pids |-> "none"]
    /\ ic_pid = [pid \in Pids |-> 0]
    /\ ic_overlapped = FALSE

RestIC == InitIC /\ ic_foreign = {}

\* The instance with the PID pid is alive and at the step pc of its
\* handle_instance_check.
ic_at(pid, pc) == pid \in ic_alive /\ ic_pc[pid] = pc

\* The instances that have entered handle_instance_check and not left it.
ic_checking == {pid \in ic_alive : ic_pc[pid] # "done"}

\* An instance of the tool is started, the operating system gives it the
\* PID pid, and __main__ calls handle_instance_check().
ic_startup(pid) ==
    /\ ic_started < IcMaxStarts
    /\ pid \notin ic_alive \cup ic_foreign
    /\ ic_alive' = ic_alive \cup {pid}
    /\ ic_pc' = [ic_pc EXCEPT ![pid] = "start"]
    /\ ic_pid' = [ic_pid EXCEPT ![pid] = 0]
    /\ ic_newest' = pid
    /\ ic_started' = ic_started + 1
    /\ ic_overlapped' = (ic_overlapped \/ ic_checking # {})
    /\ UNCHANGED <<ic_lock, ic_foreign>>
    /\ UNCHANGED notIC

\* if os.path.exists(lock_file_path):
ic_exists(pid) ==
    /\ ic_at(pid, "start")
    /\ ic_pc' = [ic_pc EXCEPT ![pid] = IF ic_lock = "absent" THEN "open_w" ELSE "open_r"]
    /\ UNCHANGED <<ic_lock, ic_alive, ic_foreign, ic_newest, ic_started, ic_pid,
                   ic_overlapped>>
    /\ UNCHANGED notIC

\* with open(lock_file_path, 'r') as f: pid = int(f.read().strip()); a
\* ValueError is printed and the kill is skipped.
ic_read(pid) ==
    /\ ic_at(pid, "open_r")
    /\ IF icr_ValueError(Strip(ic_lock))
       THEN /\ ic_pc' = [ic_pc EXCEPT ![pid] = "open_w"]
            /\ UNCHANGED ic_pid
       ELSE /\ ic_pc' = [ic_pc EXCEPT ![pid] = "kill"]
            /\ ic_pid' = [ic_pid EXCEPT ![pid] = ParseInt(Strip(ic_lock))]
    /\ UNCHANGED <<ic_lock, ic_alive, ic_foreign, ic_newest, ic_started, ic_overlapped>>
    /\ UNCHANGED notIC

\* subprocess.run(['taskkill', '/F', '/PID', str(pid)]) or ['kill', '-9',
\* str(pid)]: whatever process holds the PID is gone afterwards.
ic_kill(pid) ==
    /\ ic_at(pid, "kill")
    /\ ic_alive' = ic_alive \ {ic_pid[pid]}
    /\ ic_foreign' = ic_foreign \ {ic_pid[pid]}
    /\ ic_pc' = [ic_pc EXCEPT ![pid] = "open_w"]
    /\ UNCHANGED <<ic_lock, ic_newest, ic_started, ic_pid, ic_overlapped>>
    /\ UNCHANGED notIC

\* with open(lock_file_path, 'w') as f: the file is created or truncated
ic_open_w(pid) ==
    /\ ic_at(pid, "open_w")
    /\ ic_lock' = ""
    /\ ic_pc' = [ic_pc EXCEPT ![pid] = "write"]
    /\ UNCHANGED <<ic_alive, ic_foreign, ic_newest, ic_started, ic_pid, ic_overlapped>>
    /\ UNCHANGED notIC

\* f.write(str(os.getpid())), and the file is closed
ic_write(pid) ==
    /\ ic_at(pid, "write")
    /\ ic_lock' = icr_write_at_0(ic_lock, IntToStr(pid))
    /\ ic_pc' = [ic_pc EXCEPT ![pid] = "done"]
    /\ UNCHANGED <<ic_alive, ic_foreign, ic_newest, ic_started, ic_pid, ic_overlapped>>
    /\ UNCHANGED notIC

\* The user closes the window of an instance: closeEvent, sys.exit.
ic_exit(pid) ==
    /\ ic_at(pid, "done")
    /\ ic_alive' = ic_alive \ {pid}
    /\ UNCHANGED <<ic_lock, ic_foreign, ic_newest, ic_started, ic_pc, ic_pid,
                   ic_overlapped>>
    /\ UNCHANGED notIC

\* Another program is started and gets a free PID, or ends.
ic_foreign_start(pid) ==
    /\ pid \notin ic_alive \cup ic_foreign
    /\ ic_foreign' = ic_foreign \cup {pid}
    /\ UNCHANGED <<ic_lock, ic_alive, ic_newest, ic_started, ic_pc, ic_pid,
                   ic_overlapped>>
    /\ UNCHANGED notIC

ic_foreign_exit(pid) ==
    /\ pid \in ic_foreign
    /\ ic_foreign' = ic_foreign \ {pid}
    /\ UNCHANGED <<ic_lock, ic_alive, ic_newest, ic_started, ic_pc, ic_pid,
                   ic_overlapped>>
    /\ UNCHANGED notIC

NextIC ==
    \/ \E pid \in Pids : ic_startup(pid)
    \/ \E pid \in Pids : ic_exists(pid)
    \/ \E pid \in Pids : ic_read(pid)
    \/ \E pid \in Pids : ic_kill(pid)
    \/ \E pid \in Pids : ic_open_w(pid)
    \/ \E pid \in Pids : ic_write(pid)
    \/ \E pid \in Pids : ic_exit(pid)
    \/ \E pid \in Pids : ic_foreign_start(pid)
    \/ \E pid \in Pids : ic_foreign_exit(pid)

\* The handle_instance_check of the newest instance ends in this step: it
\* returns, or the instance is killed inside it.
C14_CheckEnds ==
    /\ ic_newest \in ic_checking
    /\ ic_newest \notin ic_alive' \/ ic_pc'[ic_newest] = "done"

\* C14: when no two checks have overlapped, after each startup only the
\* newest instance is alive and the lock file holds its PID.
C14_OnlyNewestAlive ==
    [][(C14_CheckEnds /\ ~ic_overlapped)
          => /\ ic_alive' = {ic_newest}
             /\ ic_lock' = IntToStr(ic_newest)]_vars

\* C23: the kill of a handle_instance_check removes nothing but an earlier
\* instance of the tool that is still running: no process of another
\* program and not the instance that runs the check.
C23_KillsOnlyEarlierInstances ==
    [][\A pid \in Pids :
          (ic_at(pid, "kill") /\ ic_pc'[pid] # "kill")
             => /\ ic_foreign' = ic_foreign
                /\ pid \in ic_alive']_vars

\* ======================================================================
\* Imgur uploader: the path of an image is taken from the clipboard, the
\* image is posted by an ImageUploadWorker and the link comes back in the
\* clipboard.
\* ======================================================================

\* str.strip('"')
RECURSIVE StripQuotes(_)
StripQuotes(s) ==
    IF Len(s) > 0 /\ CharAt(s, 1) = "\"" THEN StripQuotes(SubSeq(s, 2, Len(s)))
    ELSE IF Len(s) > 0 /\ CharAt(s, Len(s)) = "\"" THEN StripQuotes(SubSeq(s, 1, Len(s) - 1))
    ELSE s

ImClipboardTexts == {"", "a.png", "\"a.png\"", " \"a.png\"\n", "\"\""}

ImLinks == {"https://i.imgur.com/a.png"}

\* What happens to the worker's request: open() or requests.post raises,
\* raise_for_status raises, the body is not JSON, or it is a JSON object with
\* or without 'success' and with or without data.link.
ImResponses ==
    {[kind |-> k, success |-> "absent", link |-> "absent"] :
         k \in {"os_error", "network_error", "http_error", "not_json"}}
    \cup {[kind |-> "json", success |-> s, link |-> l] :
              s \in {"true", "false", "absent"}, l \in {"absent"} \cup ImLinks}

NoResponse == [kind |-> "none", success |-> "absent", link |-> "absent"]

\* The argument of finished_signal.emit in ImageUploadWorker.run: <<>> is
\* None, <<t>> the str t.
im_run_emits(image_path, r) ==
    IF image_path = "" THEN <<>>
    ELSE IF r.kind # "json" THEN <<>>
    ELSE IF r.success = "true" /\ r.link # "absent" THEN <<r.link>>
    ELSE <<>>

\* finished_signal = pyqtSignal(str): None reaches the slot as a null
\* QString, which is the empty str.
im_signal_str(v) == IF v = <<>> THEN "" ELSE v[1]

ImWindow ==
    [clipboard |-> im_clipboard, timers |-> im_timers, visible |-> im_visible,
     status_shown |-> im_status_shown, copied |-> im_copied]

\* ImgurUploader.show_upload_status
im_show_upload_status(s) == [s EXCEPT !.status_shown = TRUE, !.timers = @ \cup {"close"}]

\* ImgurUploader.handle_upload_complete(link)
im_handle_upload_complete_mut(s, link) ==
    IF link # "" THEN im_show_upload_status([s EXCEPT !.clipboard = link, !.copied = Append(@, link)])
    ELSE [s EXCEPT !.visible = FALSE, !.clipboard = link, !.copied = Append(@, link)]

im_handle_upload_complete(s, link) ==
    IF link # "" THEN im_show_upload_status([s EXCEPT !.clipboard = link, !.copied = Append(@, link)])
    ELSE [s EXCEPT !.visible = FALSE]

\* ImgurUploader.__init__
InitIM ==
    /\ im_clipboard \in ImClipboardTexts
    /\ im_exists \in BOOLEAN
    /\ im_image_path = "None"
    /\ im_timers = {"start_upload"}
    /\ im_visible = TRUE
    /\ im_status_shown = FALSE
    /\ im_worker = "idle"
    /\ im_response = NoResponse
    /\ im_events = <<>>
    /\ im_copied = <<>>

RestIM == InitIM /\ im_clipboard = "" /\ im_exists = FALSE

\* QTimer.singleShot(10, self.start_upload)
ImgurUploader_start_upload ==
    /\ "start_upload" \in im_timers
    /\ im_image_path' = StripQuotes(Strip(im_clipboard))
    /\ IF im_image_path' = "" \/ ~im_exists
       THEN /\ im_visible' = FALSE
            /\ im_timers' = im_timers \ {"start_upload"}
            /\ UNCHANGED im_worker
       ELSE /\ im_timers' = (im_timers \ {"start_upload"}) \cup {"load_preview_image"}
            /\ im_worker' = "running"
            /\ UNCHANGED im_visible
    /\ UNCHANGED <<im_clipboard, im_exists, im_status_shown, im_response, im_events, im_copied>>
    /\ UNCHANGED notIM

\* QTimer.singleShot(10, self.load_preview_image): the preview is set, or
\* PIL raises and the window is closed.
ImgurUploader_load_preview_image(ok) ==
    /\ "load_preview_image" \in im_timers
    /\ im_timers' = im_timers \ {"load_preview_image"}
    /\ im_visible' = IF ok THEN im_visible ELSE FALSE
    /\ UNCHANGED <<im_clipboard, im_exists, im_image_path, im_status_shown, im_worker,
                   im_response, im_events, im_copied>>
    /\ UNCHANGED notIM

\* ImageUploadWorker.run
ImageUploadWorker_run(r) ==
    /\ im_worker = "running"
    /\ im_worker' = "finished"
    /\ im_response' = r
    /\ im_events' = Append(im_events, im_signal_str(im_run_emits(im_image_path, r)))
    /\ UNCHANGED <<im_clipboard, im_exists, im_image_path, im_timers, im_visible,
                   im_status_shown, im_copied>>
    /\ UNCHANGED notIM

\* The main thread handles the queued finished_signal.
ImgurUploader_handle_upload_complete ==
    /\ im_events # <<>>
    /\ im_events' = Tail(im_events)
    /\ \E s \in {im_handle_upload_complete(ImWindow, Head(im_events))} :
           /\ im_clipboard' = s.clipboard
           /\ im_timers' = s.timers
           /\ im_visible' = s.visible
           /\ im_status_shown' = s.status_shown
           /\ im_copied' = s.copied
    /\ UNCHANGED <<im_exists, im_image_path, im_worker, im_response>>
    /\ UNCHANGED notIM

\* QTimer.singleShot(STATUS_TIMEOUT, self.close)
ImgurUploader_close ==
    /\ "close" \in im_timers
    /\ im_timers' = im_timers \ {"close"}
    /\ im_visible' = FALSE
    /\ UNCHANGED <<im_clipboard, im_exists, im_image_path, im_status_shown, im_worker,
                   im_response, im_events, im_copied>>
    /\ UNCHANGED notIM

NextIM ==
    \/ ImgurUploader_start_upload
    \/ \E ok \in BOOLEAN : ImgurUploader_load_preview_image(ok)
    \/ \E r \in ImResponses : ImageUploadWorker_run(r)
    \/ ImgurUploader_handle_upload_complete
    \/ ImgurUploader_close

\* The upload has ended and its finished_signal has been handled.
im_Handled == im_worker = "finished" /\ im_events = <<>>

\* Imgur answered with success and a link.
im_Succeeded == im_response.kind = "json" /\ im_response.success = "true" /\ im_response.link # "absent"

\* C15: once the upload's end has been handled, a successful upload has put
\* its link, and nothing else, into the clipboard and shown the status whose
\* timeout closes the window; after a failed upload nothing has been written
\* to the clipboard and the window is closed.  The window of a successful
\* upload is closed in the end.
C15_UploadOutcomeHandled ==
    /\ [](im_Handled /\ im_Succeeded =>
            /\ im_copied = <<im_response.link>> /\ im_clipboard = im_response.link
            /\ im_status_shown
            /\ "close" \in im_timers \/ ~im_visible)
    /\ [](im_Handled /\ ~im_Succeeded =>
            /\ im_copied = <<>> /\ im_clipboard \in ImClipboardTexts
            /\ ~im_status_shown /\ ~im_visible)
    /\ [](~im_Handled => im_copied = <<>>)
    /\ (im_Handled /\ im_Succeeded) ~> (im_timers = {} /\ ~im_visible)

\* A link has been copied and the status timeout is running.
C15_Witness ==
    /\ im_Handled /\ im_Succeeded
    /\ im_visible /\ "close" \in im_timers
    /\ im_clipboard \in ImLinks

\* ======================================================================
\* Organize (simple.bat): the files given as arguments are moved into one
\* folder for each category, under the directory of the first argument.
\* ======================================================================

\* Largest number of arguments
OrgMaxArgs == 2

\* The tables of lines 11 to 26: the variable's name and the words of its
\* value
OrgTables ==
    <<
      [name |-> "Images",
       exts |-> <<"png", "jpg", "jpeg", "gif", "bmp", "webp", "tif", "tiff", "ico", "heic", "jfif", "avif", "svg", "psd", "ai", "eps", "raw", "cr2", "nef", "dng", "arw", "orf", "sr2", "heif", "3fr", "erf", "rw2", "tga", "pbm", "pgm", "ppm", "jp2", "j2k", "xpm", "pcx">>],
      [name |-> "Videos",
       exts |-> <<"mp4", "mkv", "mov", "avi", "wmv", "flv", "webm", "mpg", "mpeg", "m4v", "3gp", "ts", "m2ts", "ogv", "asf", "wtv", "dvr-ms", "divx", "xvid", "f4v", "swf", "rm", "rmvb">>],
      [name |-> "Audio",
       exts |-> <<"mp3", "wav", "flac", "ogg", "aac", "m4a", "wma", "opus", "amr", "aif", "aiff", "mid", "midi", "caf", "weba", "alac", "m4b", "dss", "ac3", "aifc">>],
      [name |-> "Documents",
       exts |-> <<"pdf", "doc", "docx", "docm", "rtf", "txt", "md", "markdown", "csv", "tsv", "xls", "xlsx", "xlsm", "xlsb", "ppt", "pptx", "pps", "ppsx", "odt", "ods", "odp", "epub", "mobi", "azw", "azw3", "chm", "onenote", "vsd", "pub", "lit", "ps">>],
      [name |-> "Scripts",
       exts |-> <<"bat", "cmd", "ps1", "psd1", "psm1", "vbs", "vbe", "js", "jse", "wsf", "wsh", "py", "pyw", "rb", "pl", "php", "go", "cs", "java", "class", "c", "cpp", "cc", "cxx", "h", "hpp", "hxx", "rs", "kt", "kts", "swift", "lua", "ts", "tsx", "jsx", "json", "yml", "yaml", "ini", "cfg", "toml", "env", "reg", "sql", "sh", "bash", "zsh", "csh", "ksh", "tcl", "vim", "html", "htm", "css", "conf", "properties">>],
      [name |-> "Executables",
       exts |-> <<"exe", "msi", "msp", "msu", "appx", "appxbundle", "msix", "msixbundle", "app", "com", "scr", "cab">>],
      [name |-> "Compressed",
       exts |-> <<"zip", "rar", "7z", "tar", "gz", "bz2", "xz", "zst", "tgz", "tbz", "tbz2", "txz", "cab", "iso", "img", "bin", "cue", "dmg", "vhd", "vhdx", "rar5", "udf", "daa">>],
      [name |-> "Fonts",
       exts |-> <<"ttf", "otf", "woff", "woff2", "eot", "fon">>],
      [name |-> "Subtitles",
       exts |-> <<"srt", "ass", "vtt", "sub", "idx", "sup">>],
      [name |-> "Shortcuts",
       exts |-> <<"lnk", "url", "webloc">>],
      [name |-> "Torrents",
       exts |-> <<"torrent">>],
      [name |-> "3D Models",
       exts |-> <<"obj", "stl", "dae", "fbx", "3ds", "max", "blend">>],
      [name |-> "Geographic",
       exts |-> <<"shp", "kml", "gpx", "kmz", "gdb">>],
      [name |-> "Databases",
       exts |-> <<"db", "sql", "sqlite", "mdb", "accdb">>],
      [name |-> "Web Assets",
       exts |-> <<"xml", "xsl", "xsd">>],
      [name |-> "Other",
       exts |-> <<>>]
    >>

\* The value of the variable called name, as the words that FOR iterates
\* (nothing when no such variable is set)
OrgWords(name) ==
    IF \E t \in 1..Len(OrgTables) : OrgTables[t].name = name
    THEN OrgTables[CHOOSE t \in 1..Len(OrgTables) : OrgTables[t].name = name].exts
    ELSE <<>>

\* The categories that the loop of line 44 goes through, in its order
OrgLookup ==
    <<"Images", "Videos", "Audio", "Documents", "Scripts", "Executables", "Compressed",
      "Fonts", "Subtitles", "Shortcuts", "Torrents">>

\* IF /I compares without regard to case
OrgUpper == "ABCDEFGHIJKLMNOPQRSTUVWXYZ"
OrgLower == "abcdefghijklmnopqrstuvwxyz"
OrgLowerCh(c) ==
    IF \E k \in 1..26 : CharAt(OrgUpper, k) = c
    THEN CharAt(OrgLower, CHOOSE k \in 1..26 : CharAt(OrgUpper, k) = c)
    ELSE c
RECURSIVE OrgLowerStr(_)
OrgLowerStr(s) == IF s = "" THEN "" ELSE OrgLowerCh(CharAt(s, 1)) \o OrgLowerStr(SubSeq(s, 2, Len(s)))
OrgEqualI(a, b) == Len(a) = Len(b) /\ OrgLowerStr(a) = OrgLowerStr(b)

\* Position of the first "!" of s at or after i, 0 when there is none
RECURSIVE OrgBang(_, _)
OrgBang(s, i) == IF i > Len(s) THEN 0 ELSE IF CharAt(s, i) = "!" THEN i ELSE OrgBang(s, i + 1)

\* Delayed expansion (line 2, EnableDelayedExpansion) of a text that percent
\* expansion has already filled in: !name! becomes the value of name, which
\* is empty for the names that occur here, and a "!" without a partner is
\* dropped.
RECURSIVE DelayedExpansion(_)
DelayedExpansion(s) ==
    IF OrgBang(s, 1) = 0 THEN s
    ELSE IF OrgBang(s, OrgBang(s, 1) + 1) = 0
    THEN SubSeq(s, 1, OrgBang(s, 1) - 1) \o SubSeq(s, OrgBang(s, 1) + 1, Len(s))
    ELSE SubSeq(s, 1, OrgBang(s, 1) - 1)
         \o DelayedExpansion(SubSeq(s, OrgBang(s, OrgBang(s, 1) + 1) + 1, Len(s)))

\* !fileExt:.=!
RECURSIVE OrgNoDots(_)
OrgNoDots(s) ==
    IF s = "" THEN ""
    ELSE (IF CharAt(s, 1) = "." THEN "" ELSE CharAt(s, 1)) \o OrgNoDots(SubSeq(s, 2, Len(s)))

\* The name and extension that MOVE gives the file: what follows the last
\* "\" of the source
RECURSIVE OrgLeaf(_)
OrgLeaf(s) ==
    IF \E k \in 1..Len(s) : CharAt(s, k) = "\\"
    THEN OrgLeaf(SubSeq(s, (CHOOSE k \in 1..Len(s) : CharAt(s, k) = "\\") + 1, Len(s)))
    ELSE s

\* An argument is [dp, n, x]: %~dp1, %~n1 and %~x1 (with its dot); %~1 is
\* the three together.
OrgArg1(a) == a.dp \o a.n \o a.x

\* Lines 43 to 54: the first category of the lookup with a word equal to
\* fileExt, else Other
RECURSIVE org_lookup(_, _)
org_lookup(fileExt, f) ==
    IF f > Len(OrgLookup) THEN ""
    ELSE IF \E words \in {OrgWords(OrgLookup[f])} : \E e \in 1..Len(words) : OrgEqualI(fileExt, words[e])
    THEN OrgLookup[f]
    ELSE org_lookup(fileExt, f + 1)

\* Line 54
org_defined(folder) == IF folder = "" THEN "Other" ELSE folder

destinationFolder(fileExt) == org_defined(org_lookup(fileExt, 1))

\* Lines 31 to 41.  SET with an empty value (line 33, an argument without
\* extension) deletes the variable, and for an undefined variable the
\* replace form of line 41 removes "!fileExt:" only: ".=" stays and the "!"
\* that is left without a partner is dropped.
filePath(a) == DelayedExpansion(OrgArg1(a))
fileExt(a) ==
    IF DelayedExpansion(a.x) = "" THEN ".=" ELSE OrgNoDots(DelayedExpansion(a.x))

\* Line 56
fullDestinationPath(parentDir, folder) == parentDir \o folder \o "\\"

\* MOVE /Y source folder: nothing happens when source is no file.
org_move(files, source, folder) ==
    IF source \in files THEN (files \ {source}) \cup {folder \o OrgLeaf(source)} ELSE files

\* The arguments that the model draws from: files in three directories and
\* a directory.
OrgDirs == {"C:\\a\\", "C:\\a\\Images\\", "D:\\b\\"}
OrgNames == {"x", "x!"}
OrgExts == {"", ".png", ".PNG", ".ts", ".cab", ".sql", ".xml", ".obj", ".zz"}
OrgFileArgs == {[dp |-> d, n |-> n, x |-> x] : d \in OrgDirs, n \in OrgNames, x \in OrgExts}
OrgDirArgs == {[dp |-> "C:\\a\\", n |-> "Images", x |-> ""]}
OrgArgs == OrgFileArgs \cup OrgDirArgs
OrgArgLists ==
    {<<>>} \cup {<<a>> : a \in OrgArgs}
    \cup {<<a, b>> : a \in OrgArgs, b \in OrgFileArgs}

InitORG ==
    /\ org_args \in {l \in OrgArgLists : Len(l) <= OrgMaxArgs /\ (Len(l) = 2 => l[1] # l[2])}
    /\ org_pc = "start"
    /\ org_parentDir = ""
    /\ org_files = {OrgArg1(org_args[k]) : k \in {j \in 1..Len(org_args) : org_args[j] \in OrgFileArgs}}
    /\ org_dirs = OrgDirs
    /\ org_log = <<>>

RestORG ==
    /\ org_args = <<>>
    /\ org_pc = "start"
    /\ org_parentDir = ""
    /\ org_files = {}
    /\ org_dirs = OrgDirs
    /\ org_log = <<>>

\* Lines 4 to 9
org_start ==
    /\ org_pc = "start"
    /\ IF org_args = <<>>
       THEN org_pc' = "done" /\ UNCHANGED org_parentDir
       ELSE org_pc' = "loop" /\ org_parentDir' = DelayedExpansion(org_args[1].dp)
    /\ UNCHANGED <<org_args, org_files, org_dirs, org_log>>
    /\ UNCHANGED notORG

\* Line 29: no argument is left.
org_eof ==
    /\ org_pc = "loop"
    /\ org_args = <<>>
    /\ org_pc' = "done"
    /\ UNCHANGED <<org_args, org_parentDir, org_files, org_dirs, org_log>>
    /\ UNCHANGED notORG

\* Lines 31 to 39: the argument is a directory.
org_skip_directory ==
    /\ org_pc = "loop"
    /\ org_args # <<>>
    /\ filePath(Head(org_args)) \o "\\" \in org_dirs
    /\ org_args' = Tail(org_args)
    /\ org_log' = Append(org_log, [arg |-> Head(org_args), folder |-> "", skipped |-> TRUE])
    /\ UNCHANGED <<org_pc, org_parentDir, org_files, org_dirs>>
    /\ UNCHANGED notORG

\* Lines 31 to 78 for any other argument.  Lines 57 to 70 change nothing
\* of this: line 61 goes to :moveFinal, and line 65 would move the file into
\* the same folder.
org_move_file ==
    /\ org_pc = "loop"
    /\ org_args # <<>>
    /\ filePath(Head(org_args)) \o "\\" \notin org_dirs
    /\ \E ext \in {fileExt(Head(org_args))} : \E folder \in {destinationFolder(ext)} :
          /\ org_dirs' = org_dirs \cup {fullDestinationPath(org_parentDir, folder)}
          /\ org_files' = org_move(org_files, filePath(Head(org_args)), fullDestinationPath(org_parentDir, folder))
          /\ org_log' = Append(org_log, [arg |-> Head(org_args), folder |-> folder, skipped |-> FALSE])
    /\ org_args' = Tail(org_args)
    /\ UNCHANGED <<org_pc, org_parentDir>>
    /\ UNCHANGED notORG

NextORG ==
    \/ org_start
    \/ org_eof
    \/ org_skip_directory
    \/ org_move_file

\* The first category, in the order that the claim gives, with the
\* extension in its list, else Other
C19_Order ==
    <<"Images", "Videos", "Audio", "Documents", "Scripts", "Executables", "Compressed",
      "Fonts", "Subtitles", "Shortcuts", "Torrents">>
C19_Lists(ext, c) == \E words \in {OrgWords(c)} : \E e \in 1..Len(words) : OrgEqualI(ext, words[e])
C19_First(hits) ==
    IF hits = {} THEN "Other" ELSE C19_Order[CHOOSE k \in hits : \A j \in hits : k <= j]
C19_Category(ext) == C19_First({k \in 1..Len(C19_Order) : C19_Lists(ext, C19_Order[k])})
C19_Folder(a) == CHOOSE c \in {C19_Category(ext) : ext \in {OrgNoDots(a.x)}} : TRUE
C19_Place(first, a) == first.dp \o C19_Folder(a) \o "\\" \o a.n \o a.x

\* C19: when the script has ended, every file argument is in the folder of
\* its category under the directory of the first argument, and no longer
\* where it was (unless that is the same place); directory arguments are
\* skipped.
C19_EveryFileMoved ==
    org_pc = "done" =>
        \A k \in 1..Len(org_log) :
            IF org_log[k].arg \in OrgDirArgs
            THEN org_log[k].skipped
            ELSE \E place \in {C19_Place(org_log[1].arg, org_log[k].arg)} :
                    /\ place \in org_files
                    /\ OrgArg1(org_log[k].arg) # place => OrgArg1(org_log[k].arg) \notin org_files

\* C20: a file whose extension is in any of the tables of lines 11 to 25
\* goes to a category whose table has the extension, never to Other.
C20_ListedNeverOther ==
    \A k \in 1..Len(org_log) :
        (~org_log[k].skipped /\ \E t \in 1..Len(OrgTables) : C19_Lists(OrgNoDots(org_log[k].arg.x), OrgTables[t].name))
            => /\ org_log[k].folder # "Other"
               /\ C19_Lists(OrgNoDots(org_log[k].arg.x), org_log[k].folder)

(***************************************************************************)
(* handle_instance_check step by step: instances of one tool whose checks  *)
(* interleave.  Each file operation is one step of the process that makes  *)
(* it.                                                                     *)
(***************************************************************************)
IcrInstances == 2

\* os.getpid() of the instances that start, and of an instance started
\* long before them
IcrPid(i) == <<23, 1, 456>>[i]
IcrOld == 5
IcrIds == 1..IcrInstances

InitICR ==
    /\ \E before \in {"never run", "running", "closed", "killed in the write"} :
          /\ icr_lock = CASE before = "never run" -> "absent"
                           [] before = "killed in the write" -> ""
                           [] OTHER -> IntToStr(IcrOld)
          /\ icr_alive = {IcrPid(i) : i \in IcrIds} \cup (IF before = "running" THEN {IcrOld} ELSE {})
    /\ icr_pc = [i \in IcrIds |-> "start"]
    /\ icr_pid = [i \in IcrIds |-> 0]

RestICR ==
    /\ icr_lock = "absent"
    /\ icr_alive = {}
    /\ icr_pc = [i \in IcrIds |-> "start"]
    /\ icr_pid = [i \in IcrIds |-> 0]

icr_at(i, pc) == i \in IcrIds /\ IcrPid(i) \in icr_alive /\ icr_pc[i] = pc

\* if os.path.exists(lock_file_path):
icr_exists(i) ==
    /\ icr_at(i, "start")
    /\ icr_pc' = [icr_pc EXCEPT ![i] = IF icr_lock = "absent" THEN "open_w" ELSE "open_r"]
    /\ UNCHANGED <<icr_lock, icr_alive, icr_pid>>
    /\ UNCHANGED notICR

\* with open(lock_file_path, 'r') as f: pid = int(f.read().strip())
icr_read(i) ==
    /\ icr_at(i, "open_r")
    /\ IF icr_ValueError(Strip(icr_lock))
       THEN /\ icr_pc' = [icr_pc EXCEPT ![i] = "open_w"]
            /\ UNCHANGED icr_pid
       ELSE /\ icr_pc' = [icr_pc EXCEPT ![i] = "kill"]
            /\ icr_pid' = [icr_pid EXCEPT ![i] = ParseInt(Strip(icr_lock))]
    /\ UNCHANGED <<icr_lock, icr_alive>>
    /\ UNCHANGED notICR

\* taskkill /F /PID pid, kill -9 pid
icr_kill(i) ==
    /\ icr_at(i, "kill")
    /\ icr_alive' = icr_alive \ {icr_pid[i]}
    /\ icr_pc' = [icr_pc EXCEPT ![i] = "open_w"]
    /\ UNCHANGED <<icr_lock, icr_pid>>
    /\ UNCHANGED notICR

\* with open(lock_file_path, 'w') as f: the file is created or truncated
icr_open_w(i) ==
    /\ icr_at(i, "open_w")
    /\ icr_lock' = ""
    /\ icr_pc' = [icr_pc EXCEPT ![i] = "write"]
    /\ UNCHANGED <<icr_alive, icr_pid>>
    /\ UNCHANGED notICR

\* f.write(str(os.getpid())), and the file is closed
icr_write(i) ==
    /\ icr_at(i, "write")
    /\ icr_lock' = icr_write_at_0(icr_lock, IntToStr(IcrPid(i)))
    /\ icr_pc' = [icr_pc EXCEPT ![i] = "done"]
    /\ UNCHANGED <<icr_alive, icr_pid>>
    /\ UNCHANGED notICR

NextICR ==
    \/ \E i \in IcrIds : icr_exists(i)
    \/ \E i \in IcrIds : icr_read(i)
    \/ \E i \in IcrIds : icr_kill(i)
    \/ \E i \in IcrIds : icr_open_w(i)
    \/ \E i \in IcrIds : icr_write(i)

\* C22: once the checks of all the instances that started together have
\* completed (an instance that was killed completes none), at most one of
\* them is alive and the lock file holds the PID of that one.
C22_OneSurvivor ==
    (\A i \in IcrIds : icr_pc[i] = "done" \/ IcrPid(i) \notin icr_alive)
        => \E i \in IcrIds :
              /\ icr_alive \cap {IcrPid(j) : j \in IcrIds} \subseteq {IcrPid(i)}
              /\ IcrPid(i) \in icr_alive => icr_lock = IntToStr(IcrPid(i))

(***************************************************************************)
(* One item of the YT downloader variants whose window opens, from         *)
(* add_to_queue to the end of its download: the yt_dlp library one         *)
(* (YT/yt.pyw) and the pre-flight variant with its PreFlightThread, its    *)
(* aggregated progress and its postprocessor hook.  (The window of the     *)
(* subprocess variant raises KeyError in __init__, so it never has an      *)
(* item.)  yt-dlp is the environment: it downloads one stream after the    *)
(* other, calling the progress hook, runs its postprocessors one after the *)
(* other and ends well or with an error.  Every signal of the item's       *)
(* threads is queued to the main thread.                                   *)
(***************************************************************************)
FinMaxPostprocessors == 2

\* Largest stream size, in bytes
PfMaxSize == 2

FinVariants == {"library", "preflight"}
\* The file yt-dlp writes for the item.
FinPath == "out/title.mp4"
FinSig(name, arg) == [sig |-> name, arg |-> arg]
\* str(e) of an exception of yt-dlp or of the network
FinErr == "ERROR: unable to download video data: HTTP Error 403"
\* The postprocessors yt-dlp runs on the item's file, in order
FinPostprocessors == <<"Merger", "MoveFiles">>
\* d.get('speed') and d.get('eta') of a 'downloading' d: unknown (None, -1
\* here), or 2 MiB/s and 5 seconds
PfRates == {[speed |-> -1, eta |-> -1], [speed |-> 2 * 1024 * 1024, eta |-> 5]}

\* A stream: its codecs, the bytes it really has, and what the metadata say
\* (0: no 'filesize', no 'filesize_approx').
PfStreams(kind) ==
    {[vcodec |-> IF kind = "audio" THEN "none" ELSE "avc1",
      acodec |-> IF kind = "video" THEN "none" ELSE "mp4a",
      real |-> r, filesize |-> IF exact THEN r ELSE 0, filesize_approx |-> fa] :
         r \in 1..PfMaxSize, exact \in BOOLEAN, fa \in 0..PfMaxSize}

\* info_dict['requested_formats'], or <<the info_dict itself>> when there is
\* none
PfFormats ==
    {<<v, a>> : v \in PfStreams("video"), a \in PfStreams("audio")}
    \cup {<<x>> : x \in PfStreams("muxed")}

\* One muxed stream of one byte with an exact 'filesize'
FinFormats == {<<[vcodec |-> "avc1", acodec |-> "mp4a", real |-> 1, filesize |-> 1, filesize_approx |-> 0]>>}

\* f.get('filesize') or f.get('filesize_approx', 0)
pf_size(f) == IF f.filesize # 0 THEN f.filesize ELSE f.filesize_approx

\* total_size of PreFlightThread.run
RECURSIVE pf_total_size(_)
pf_total_size(formats) ==
    IF formats = <<>> THEN 0 ELSE pf_size(Head(formats)) + pf_total_size(Tail(formats))

\* DownloadThread.__init__ of the pre-flight variant
DownloadThread_init(total_size) ==
    [total_combined_size |-> total_size, video_bytes |-> 0, audio_bytes |-> 0]

\* The byte counters after progress_hook(d) for a 'downloading' d
pf_count(t, info, downloaded_bytes) ==
    IF info.vcodec # "none" /\ info.acodec = "none"
    THEN [t EXCEPT !.video_bytes = downloaded_bytes]
    ELSE IF info.acodec # "none" /\ info.vcodec = "none"
    THEN [t EXCEPT !.audio_bytes = downloaded_bytes]
    ELSE [t EXCEPT !.video_bytes = downloaded_bytes, !.audio_bytes = 0]

\* (total_downloaded / float(self.total_combined_size)) * 100, a float
pf_percent(total_downloaded, total) ==
    FMul(FDivInt(FFromInt(total_downloaded), total), FFromInt(100))

\* The d that yt-dlp gives to the progress hook for a stream: its status,
\* the bytes, the codecs of d['info_dict'], speed and eta; keys lists
\* whether 'total_percent' is set.
yt_dlp_d(status, info, downloaded_bytes, rate) ==
    [status |-> status, downloaded_bytes |-> downloaded_bytes, total_bytes |-> info.real,
     vcodec |-> info.vcodec, acodec |-> info.acodec, speed |-> rate.speed, eta |-> rate.eta,
     keys |-> {}, total_percent |-> FFromInt(0)]

\* The d that progress_hook of the pre-flight variant emits for a
\* 'downloading' d
pf_hook_emits(t, info, downloaded_bytes, rate) ==
    [yt_dlp_d("downloading", info, downloaded_bytes, rate) EXCEPT
        !.keys = IF t.total_combined_size > 0 THEN {"total_percent"} ELSE {},
        !.total_percent = IF t.total_combined_size > 0
                          THEN pf_percent(t.video_bytes + t.audio_bytes, t.total_combined_size)
                          ELSE FFromInt(0)]

\* DownloadThread.postprocessor_hook(d) for d['status'] = status; filepath
\* is d.get('filepath') or d.get('info_dict', {}).get('filepath')
postprocessor_hook(status, postprocessor, filepath) ==
    <<FinSig("postprocessing_signal", [status |-> status, postprocessor |-> postprocessor])>>
    \o (IF status = "finished" /\ filepath # "None"
        THEN <<FinSig("final_filepath_signal", filepath)>> ELSE <<>>)

\* DownloadThread.run of the library variant: extract_info returns an
\* info_dict with or without 'filepath', returns None, or raises.
FinExtractOutcomes == {"filepath", "no filepath", "None", "DownloadError", "Exception"}
fin_thread_signals(outcome) ==
    CASE outcome = "filepath" -> <<FinSig("finished_signal", FinPath)>>
      [] outcome \in {"no filepath", "None"} ->
            <<FinSig("error_signal", "Download failed, no file produced.")>>
      [] outcome = "DownloadError" -> <<FinSig("error_signal", FinErr)>>
      [] OTHER -> <<FinSig("error_signal", "An unexpected error occurred: " \o FinErr)>>

\* ---- the state after add_to_queue
\* The item's widget shows "Waiting...".  Library variant: the preview of
\* the URL is cached and start_download has started the DownloadThread, or
\* the item's ThumbnailFetcher is in extract_info.  Pre-flight variant: the
\* PreFlightThread is running.
InitFIN ==
    /\ fin_variant \in FinVariants
    /\ pf_formats \in PfFormats
    /\ fin_fetcher \in (IF fin_variant = "library" THEN {"none", "extract_info"} ELSE {"none"})
    /\ fin_pc = IF fin_variant = "preflight" THEN "preflight"
                ELSE IF fin_fetcher = "none" THEN "start" ELSE "none"
    /\ fin_status = IF fin_variant = "library" /\ fin_fetcher = "none"
                    THEN "Preparing..." ELSE "Waiting..."
    /\ pf_thread = DownloadThread_init(0)
    /\ pf_stream = 0
    /\ pf_downloaded = 0
    /\ fin_pp = 0
    /\ fin_files = {}
    /\ fin_events = <<>>
    /\ fin_downloaded_files = "None"
    /\ fin_error = FALSE
    /\ fin_succeeded = FALSE
    /\ pf_progress = [value |-> 0, aggregated |-> FALSE]

\* An item of the pre-flight variant, with any streams
InitPF == InitFIN /\ fin_variant = "preflight"

\* An item of either variant with one small stream
InitEndFIN == InitFIN /\ pf_formats \in FinFormats

\* The item left alone in the specifications of the other tools
RestFIN == InitEndFIN /\ fin_variant = "library" /\ fin_fetcher = "none"

\* ---- the item's ThumbnailFetcher (library variant)
\* ThumbnailFetcher.run leaves extract_info: info_loaded, after which it
\* goes on to the thumbnail if the info names one, or error_signal.
ThumbnailFetcher_run(outcome) ==
    /\ fin_fetcher = "extract_info"
    /\ fin_fetcher' = IF outcome = "info_thumbnail" THEN "thumbnail" ELSE "ended"
    /\ fin_events' = Append(fin_events,
                            IF outcome \in {"info", "info_thumbnail"}
                            THEN FinSig("info_loaded", outcome)
                            ELSE FinSig("error_signal", ThumbnailFetcher_error(FinErr, outcome)))
    /\ UNCHANGED <<fin_variant, pf_formats, fin_pc, pf_thread, pf_stream, pf_downloaded, fin_pp,
                   fin_files, fin_downloaded_files, fin_status, fin_error, fin_succeeded,
                   pf_progress>>
    /\ UNCHANGED notFIN

\* ThumbnailFetcher.run leaves the thumbnail download: thumbnail_loaded has
\* no slot for an item's fetcher; when urlopen raises, error_signal.
ThumbnailFetcher_run_thumbnail(raised) ==
    /\ fin_fetcher = "thumbnail"
    /\ fin_fetcher' = "ended"
    /\ fin_events' = IF raised
                     THEN Append(fin_events, FinSig("error_signal", YtThumbnailError(FinErr)))
                     ELSE fin_events
    /\ UNCHANGED <<fin_variant, pf_formats, fin_pc, pf_thread, pf_stream, pf_downloaded, fin_pp,
                   fin_files, fin_downloaded_files, fin_status, fin_error, fin_succeeded,
                   pf_progress>>
    /\ UNCHANGED notFIN

\* ---- the PreFlightThread (pre-flight variant)
\* PreFlightThread.run: finished with the total of the metadata, or error.
PreFlightThread_run(raised) ==
    /\ fin_pc = "preflight"
    /\ fin_pc' = IF raised THEN "ended" ELSE "none"
    /\ fin_events' = Append(fin_events,
                            IF raised THEN FinSig("error_signal", FinErr)
                            ELSE FinSig("preflight_finished", pf_total_size(pf_formats)))
    /\ UNCHANGED <<fin_variant, pf_formats, fin_fetcher, pf_thread, pf_stream, pf_downloaded,
                   fin_pp, fin_files, fin_downloaded_files, fin_status, fin_error,
                   fin_succeeded, pf_progress>>
    /\ UNCHANGED notFIN

\* ---- the DownloadThread
\* DownloadThread.run starts: item_id_signal, then yt-dlp begins with the
\* first stream.
DownloadThread_run_start ==
    /\ fin_pc = "start"
    /\ fin_pc' = "downloading"
    /\ pf_stream' = 1
    /\ fin_events' = Append(fin_events, FinSig("item_id_signal", ""))
    /\ UNCHANGED <<fin_variant, pf_formats, fin_fetcher, pf_thread, pf_downloaded, fin_pp,
                   fin_files, fin_downloaded_files, fin_status, fin_error, fin_succeeded,
                   pf_progress>>
    /\ UNCHANGED notFIN

\* yt-dlp has received more bytes of the stream and calls progress_hook with
\* status 'downloading': the pre-flight variant counts the bytes and adds
\* 'total_percent', the library variant emits d as it is.
DownloadThread_progress_hook(more, rate) ==
    /\ fin_pc = "downloading"
    /\ pf_downloaded + more <= pf_formats[pf_stream].real
    /\ pf_downloaded' = pf_downloaded + more
    /\ pf_thread' = IF fin_variant = "preflight"
                    THEN pf_count(pf_thread, pf_formats[pf_stream], pf_downloaded')
                    ELSE pf_thread
    /\ fin_events' = Append(fin_events,
                            FinSig("progress_signal",
                                   IF fin_variant = "preflight"
                                   THEN pf_hook_emits(pf_thread', pf_formats[pf_stream],
                                                      pf_downloaded', rate)
                                   ELSE yt_dlp_d("downloading", pf_formats[pf_stream],
                                                 pf_downloaded', rate)))
    /\ UNCHANGED <<fin_variant, pf_formats, fin_fetcher, fin_pc, pf_stream, fin_pp, fin_files,
                   fin_downloaded_files, fin_status, fin_error, fin_succeeded, pf_progress>>
    /\ UNCHANGED notFIN

\* The stream is complete: progress_hook with status 'finished'; yt-dlp goes
\* on to the next stream, or has the item's file and goes on to its
\* postprocessors.
DownloadThread_progress_hook_finished ==
    /\ fin_pc = "downloading"
    /\ pf_downloaded = pf_formats[pf_stream].real
    /\ fin_events' = Append(fin_events,
                            FinSig("progress_signal",
                                   yt_dlp_d("finished", pf_formats[pf_stream], pf_downloaded,
                                            [speed |-> -1, eta |-> -1])))
    /\ IF pf_stream < Len(pf_formats)
       THEN /\ pf_stream' = pf_stream + 1
            /\ pf_downloaded' = 0
            /\ UNCHANGED <<fin_pc, fin_files>>
       ELSE /\ fin_pc' = "running"
            /\ fin_files' = {FinPath}
            /\ UNCHANGED <<pf_stream, pf_downloaded>>
    /\ UNCHANGED <<fin_variant, pf_formats, fin_fetcher, pf_thread, fin_pp,
                   fin_downloaded_files, fin_status, fin_error, fin_succeeded, pf_progress>>
    /\ UNCHANGED notFIN

\* Library variant: extract_info(download=True) ends.  It returns an
\* info_dict once every stream is there; it can return None or raise before.
fin_DownloadThread_run(outcome) ==
    /\ fin_variant = "library"
    /\ fin_pc \in (IF outcome \in {"filepath", "no filepath"}
                   THEN {"running"} ELSE {"downloading", "running"})
    /\ fin_pc' = "ended"
    /\ fin_events' = fin_events \o fin_thread_signals(outcome)
    /\ fin_succeeded' = (outcome \in {"filepath", "no filepath"})
    /\ UNCHANGED <<fin_variant, pf_formats, fin_fetcher, pf_thread, pf_stream, pf_downloaded,
                   fin_pp, fin_files, fin_downloaded_files, fin_status, fin_error, pf_progress>>
    /\ UNCHANGED notFIN

\* Pre-flight variant: yt-dlp starts its next postprocessor on the
\* downloaded file.
fin_postprocessor_started ==
    /\ fin_variant = "preflight"
    /\ fin_pc = "running"
    /\ fin_pp < FinMaxPostprocessors
    /\ fin_pc' = "postprocessing"
    /\ fin_events' = fin_events \o postprocessor_hook("started", FinPostprocessors[fin_pp + 1], FinPath)
    /\ UNCHANGED <<fin_variant, pf_formats, fin_fetcher, pf_thread, pf_stream, pf_downloaded,
                   fin_pp, fin_files, fin_downloaded_files, fin_status, fin_error,
                   fin_succeeded, pf_progress>>
    /\ UNCHANGED notFIN

\* The postprocessor ends well.
fin_postprocessor_finished(filepath) ==
    /\ fin_variant = "preflight"
    /\ fin_pc = "postprocessing"
    /\ fin_pc' = "running"
    /\ fin_pp' = fin_pp + 1
    /\ fin_events' = fin_events \o postprocessor_hook("finished", FinPostprocessors[fin_pp + 1], filepath)
    /\ UNCHANGED <<fin_variant, pf_formats, fin_fetcher, pf_thread, pf_stream, pf_downloaded,
                   fin_files, fin_downloaded_files, fin_status, fin_error, fin_succeeded,
                   pf_progress>>
    /\ UNCHANGED notFIN

\* The download or a postprocessor fails: process_ie_result raises
\* DownloadError or another exception, or returns nothing, for which run()
\* raises DownloadError itself.
fin_process_ie_result_raises(outcome) ==
    /\ fin_variant = "preflight"
    /\ fin_pc \in {"downloading", "running", "postprocessing"}
    /\ fin_pc' = "ended"
    /\ fin_events' = Append(fin_events,
                            FinSig("error_signal",
                                   CASE outcome = "None" ->
                                            "Download failed, no info dictionary returned."
                                     [] outcome = "DownloadError" -> FinErr
                                     [] OTHER -> "An unexpected error occurred: " \o FinErr))
    /\ UNCHANGED <<fin_variant, pf_formats, fin_fetcher, pf_thread, pf_stream, pf_downloaded,
                   fin_pp, fin_files, fin_downloaded_files, fin_status, fin_error,
                   fin_succeeded, pf_progress>>
    /\ UNCHANGED notFIN

\* Every postprocessor has run: process_ie_result returns the final info.
fin_process_ie_result_returns ==
    /\ fin_variant = "preflight"
    /\ fin_pc = "running"
    /\ fin_pp = FinMaxPostprocessors
    /\ fin_pc' = "ended"
    /\ fin_events' = Append(fin_events, FinSig("finished_signal", FinPath))
    /\ fin_succeeded' = TRUE
    /\ UNCHANGED <<fin_variant, pf_formats, fin_fetcher, pf_thread, pf_stream, pf_downloaded,
                   fin_pp, fin_files, fin_downloaded_files, fin_status, fin_error, pf_progress>>
    /\ UNCHANGED notFIN

\* ---- the main window's slots, by variant.  w holds what they change: the
\* status text and the progress bar of the item's widget, the item's entry
\* in downloaded_files, and whether an error was reported for it.
fin_item ==
    [status |-> fin_status, progress |-> pf_progress,
     downloaded_files |-> fin_downloaded_files, error |-> fin_error]

\* widget.set_progress(value) with a value that is no aggregated percentage
set_progress(value) == [value |-> value, aggregated |-> FALSE]

\* on_item_progress_update(d) of the pre-flight variant: the argument of
\* set_progress and whether it is the aggregated percentage
pf_set_progress(d, before) ==
    IF d.status # "downloading" THEN before
    ELSE IF "total_percent" \in d.keys
    THEN [value |-> FTrunc(d.total_percent), aggregated |-> TRUE]
    ELSE IF d.total_bytes > 0
    THEN set_progress(FTrunc(pf_percent(d.downloaded_bytes, d.total_bytes)))
    ELSE before

\* stage of on_item_progress_update (pre-flight variant)
pf_stage(d) ==
    IF d.vcodec # "none" THEN "Video" ELSE IF d.acodec # "none" THEN "Audio" ELSE "Muxed"

\* speed_str and eta_str of on_item_progress_update, for a speed of whole
\* MiB/s
speed_str(speed) ==
    IF speed > 0 THEN ToString(speed \div (1024 * 1024)) \o ".00 MiB/s" ELSE "..."
eta_str(eta) == IF eta # -1 THEN ToString(eta) \o "s" ELSE "..."

\* on_item_progress_update(d)
on_item_progress_update(variant, w, d) ==
    IF variant = "preflight"
    THEN IF d.status = "downloading"
         THEN [w EXCEPT !.progress = pf_set_progress(d, w.progress),
                        !.status = pf_stage(d) \o ": " \o speed_str(d.speed) \o " | "
                                  \o eta_str(d.eta)]
         ELSE IF d.status = "finished"
         THEN [w EXCEPT !.status = "Download stage complete..."]
         ELSE w
    ELSE IF d.status = "downloading"
         THEN [w EXCEPT !.progress = IF d.total_bytes > 0
                                     THEN set_progress(FTrunc(pf_percent(d.downloaded_bytes,
                                                                         d.total_bytes)))
                                     ELSE w.progress,
                        !.status = speed_str(d.speed) \o " | " \o eta_str(d.eta)]
         ELSE IF d.status = "finished"
         THEN [w EXCEPT !.status = "Finalizing...", !.progress = set_progress(100)]
         ELSE w

\* on_item_start(item_id)
fin_on_item_start(w) == [w EXCEPT !.status = "Downloading..."]

\* start_download (library variant), as far as the widget goes
fin_start_download(w) == [w EXCEPT !.status = "Preparing..."]

\* on_item_finished(info_dict)
fin_on_item_finished(variant, w, filepath) ==
    IF variant = "library"
    THEN [w EXCEPT !.status = "Download Complete!", !.progress = set_progress(100),
                   !.downloaded_files = IF filepath # "None" THEN filepath ELSE @]
    ELSE [w EXCEPT !.status = "Processing complete", !.progress = set_progress(100)]

\* on_final_filepath_ready(item_id, filepath) (pre-flight variant)
fin_on_filepath(w, filepath) ==
    [w EXCEPT !.downloaded_files = filepath, !.status = "Download Complete!"]

\* on_item_postprocessing(d) (pre-flight variant)
fin_on_item_postprocessing(w, d) ==
    IF d.status \in {"started", "processing"}
    THEN [w EXCEPT !.status = "Processing: " \o d.postprocessor \o "..."]
    ELSE w

\* on_item_error(item_id, error_message)
fin_on_item_error(w, error_message) ==
    [w EXCEPT !.status = "Error: "
                         \o SubSeq(error_message, 1,
                                   IF Len(error_message) < 40 THEN Len(error_message) ELSE 40)
                         \o "...",
              !.error = TRUE]

\* The slot of a signal of the item's threads
fin_slot(variant, w, e) ==
    CASE e.sig = "item_id_signal" -> fin_on_item_start(w)
      [] e.sig = "progress_signal" -> on_item_progress_update(variant, w, e.arg)
      [] e.sig = "postprocessing_signal" -> fin_on_item_postprocessing(w, e.arg)
      [] e.sig = "final_filepath_signal" -> fin_on_filepath(w, e.arg)
      [] e.sig = "finished_signal" -> fin_on_item_finished(variant, w, e.arg)
      [] e.sig = "error_signal" -> fin_on_item_error(w, e.arg)
      [] e.sig = "info_loaded" -> fin_start_download(w)
      [] OTHER -> w

\* The main thread handles the oldest queued signal of the item's threads.
\* The slot of info_loaded (start_download) and the slot of the
\* PreFlightThread's finished (on_preflight_complete) create the item's
\* DownloadThread and start it.
fin_handle_signal ==
    /\ fin_events # <<>>
    /\ fin_events' = Tail(fin_events)
    /\ \E r \in {fin_slot(fin_variant, fin_item, Head(fin_events))} :
          /\ fin_status' = r.status
          /\ pf_progress' = r.progress
          /\ fin_downloaded_files' = r.downloaded_files
          /\ fin_error' = r.error
    /\ IF Head(fin_events).sig = "preflight_finished"
       THEN /\ fin_pc' = "start"
            /\ pf_thread' = DownloadThread_init(Head(fin_events).arg)
       ELSE IF Head(fin_events).sig = "info_loaded"
       THEN /\ fin_pc' = "start"
            /\ UNCHANGED pf_thread
       ELSE UNCHANGED <<fin_pc, pf_thread>>
    /\ UNCHANGED <<fin_variant, pf_formats, fin_fetcher, pf_stream, pf_downloaded, fin_pp,
                   fin_files, fin_succeeded>>
    /\ UNCHANGED notFIN

\* The item of the pre-flight variant
NextPF ==
    \/ \E raised \in BOOLEAN : PreFlightThread_run(raised)
    \/ DownloadThread_run_start
    \/ \E more \in 1..PfMaxSize, rate \in PfRates : DownloadThread_progress_hook(more, rate)
    \/ DownloadThread_progress_hook_finished
    \/ fin_postprocessor_started
    \/ \E filepath \in {FinPath, "None"} : fin_postprocessor_finished(filepath)
    \/ \E outcome \in {"None", "DownloadError", "Exception"} : fin_process_ie_result_raises(outcome)
    \/ fin_process_ie_result_returns
    \/ fin_handle_signal

\* The item of either variant
NextFIN ==
    \/ NextPF
    \/ \E outcome \in PreviewOutcomes : ThumbnailFetcher_run(outcome)
    \/ \E raised \in BOOLEAN : ThumbnailFetcher_run_thumbnail(raised)
    \/ \E outcome \in FinExtractOutcomes : fin_DownloadThread_run(outcome)

\* C18: the aggregated percentage given to the item's progress bar lies in
\* 0..100; no stream's downloaded bytes exceed its real size in any state of
\* this specification.
C18_AggregatedPercentInRange ==
    pf_progress.aggregated => pf_progress.value \in 0..100

\* open_downloaded_file opens the item's file on a double click.
fin_openable == fin_downloaded_files # "None" /\ fin_downloaded_files \in fin_files

\* C27: the item has an entry in downloaded_files or the status 'Download
\* Complete!' only if its whole download, post-processing included, has
\* succeeded, and an item for which an error was reported cannot be opened
\* by a double click.
C27_CompleteOnlyAfterSuccess ==
    /\ (fin_downloaded_files # "None" \/ fin_status = "Download Complete!") => fin_succeeded
    /\ fin_error => ~fin_openable

(***************************************************************************)
(* The drawing overlay with the off-screen image buffer (DrawingApp).  A   *)
(* picture is the set of painted pixels of a row of DrWidth pixels; a      *)
(* line from a to b covers the pixels between them.  The log records the   *)
(* last two handlers that completed an action or moved in the history,     *)
(* with the picture on the canvas before and after, and whether the        *)
(* handler ran while is_drawing was set, which it is from a press of the   *)
(* mouse button to the next release the canvas receives (for a stroke:     *)
(* whether another logged handler ran between its first press and its      *)
(* release).                                                               *)
(***************************************************************************)
DrMaxActions == 4

DrWidth == 1
DrPixels == 1..DrWidth
TRANSPARENT == {}
TOOL_BRUSH == "brush"
DrTools == {TOOL_BRUSH, "line"}
\* deque(maxlen=100)
DrMaxLen == 100
deque_append(d, x) == IF Len(d) = DrMaxLen THEN Append(Tail(d), x) ELSE Append(d, x)
deque_pop(d) == SubSeq(d, 1, Len(d) - 1)
Last(d) == d[Len(d)]

\* ImageDraw.line([start, end], fill=draw_color) on image
ImageDraw_line(image, start, end, erase) ==
    LET covered == {p \in DrPixels : (start <= p /\ p <= end) \/ (end <= p /\ p <= start)}
    IN  IF erase THEN image \ covered ELSE image \cup covered

InitDR ==
    /\ dr_image = TRANSPARENT
    /\ dr_displayed = TRANSPARENT
    /\ dr_action_history = <<TRANSPARENT>>
    /\ dr_redo_history = <<>>
    /\ dr_is_drawing = FALSE
    /\ dr_start_coords = 0
    /\ dr_erase_mode = FALSE
    /\ dr_drawing_tool = TOOL_BRUSH
    /\ dr_log = <<>>
    /\ dr_actions = 0
    /\ dr_pressed = TRANSPARENT

RestDR == InitDR

dr_logged(op, done, drawing, before, after) ==
    (IF dr_log = <<>> THEN <<>> ELSE <<Last(dr_log)>>)
    \o <<[op |-> op, done |-> done, drawing |-> drawing, before |-> before, after |-> after]>>
dr_interrupted == dr_log # <<>> /\ Last(dr_log).op # "stroke" /\ Last(dr_log).drawing

DrawingApp_set_tool(tool) ==
    /\ dr_drawing_tool' = tool
    /\ UNCHANGED <<dr_image, dr_displayed, dr_action_history, dr_redo_history, dr_is_drawing,
                   dr_start_coords, dr_erase_mode, dr_log, dr_actions, dr_pressed>>
    /\ UNCHANGED notDR

DrawingApp_toggle_erase_mode ==
    /\ dr_erase_mode' = ~dr_erase_mode
    /\ UNCHANGED <<dr_image, dr_displayed, dr_action_history, dr_redo_history, dr_is_drawing,
                   dr_start_coords, dr_drawing_tool, dr_log, dr_actions, dr_pressed>>
    /\ UNCHANGED notDR

\* <Button-1> at x.  The handler does not test is_drawing: a press that
\* arrives while is_drawing is still set (the release went to the colour
\* picker's dialog) moves start_coords and clears redo_history again; the
\* stroke then still began at the earlier press.
DrawingApp_start_draw(x) ==
    /\ dr_actions < DrMaxActions
    /\ dr_is_drawing' = TRUE
    /\ dr_start_coords' = x
    /\ dr_redo_history' = <<>>
    /\ dr_pressed' = IF dr_is_drawing THEN dr_pressed ELSE dr_displayed
    /\ UNCHANGED <<dr_image, dr_displayed, dr_action_history, dr_erase_mode, dr_drawing_tool,
                   dr_log, dr_actions>>
    /\ UNCHANGED notDR

\* <B1-Motion> to x: the brush paints into the image, a shape is only shown
DrawingApp_draw(x) ==
    /\ dr_is_drawing
    /\ IF dr_drawing_tool = TOOL_BRUSH
       THEN /\ dr_image' = ImageDraw_line(dr_image, dr_start_coords, x, dr_erase_mode)
            /\ dr_start_coords' = x
            /\ dr_displayed' = dr_image'
       ELSE /\ dr_displayed' = ImageDraw_line(dr_image, dr_start_coords, x, dr_erase_mode)
            /\ UNCHANGED <<dr_image, dr_start_coords>>
    /\ UNCHANGED <<dr_action_history, dr_redo_history, dr_is_drawing, dr_erase_mode,
                   dr_drawing_tool, dr_log, dr_actions, dr_pressed>>
    /\ UNCHANGED notDR

\* <ButtonRelease-1> at x
DrawingApp_stop_draw(x) ==
    /\ dr_is_drawing
    /\ dr_actions < DrMaxActions
    /\ dr_is_drawing' = FALSE
    /\ dr_image' = IF dr_drawing_tool # TOOL_BRUSH
                   THEN ImageDraw_line(dr_image, dr_start_coords, x, dr_erase_mode)
                   ELSE dr_image
    /\ dr_action_history' = deque_append(dr_action_history, dr_image')
    /\ dr_start_coords' = 0
    /\ dr_displayed' = dr_image'
    /\ dr_log' = dr_logged("stroke", TRUE, dr_interrupted, dr_pressed, dr_image')
    /\ dr_actions' = dr_actions + 1
    /\ UNCHANGED <<dr_redo_history, dr_erase_mode, dr_drawing_tool, dr_pressed>>
    /\ UNCHANGED notDR

DrawingApp_clear_all ==
    /\ dr_actions < DrMaxActions
    /\ dr_action_history' = deque_append(dr_action_history, dr_image)
    /\ dr_redo_history' = <<>>
    /\ dr_image' = TRANSPARENT
    /\ dr_displayed' = TRANSPARENT
    /\ dr_log' = dr_logged("clear", TRUE, dr_is_drawing, dr_displayed, TRANSPARENT)
    /\ dr_actions' = dr_actions + 1
    /\ UNCHANGED <<dr_is_drawing, dr_start_coords, dr_erase_mode, dr_drawing_tool, dr_pressed>>
    /\ UNCHANGED notDR

\* <Control-z>
DrawingApp_undo ==
    /\ dr_actions < DrMaxActions
    /\ IF Len(dr_action_history) > 1
       THEN /\ dr_redo_history' = deque_append(dr_redo_history, Last(dr_action_history))
            /\ dr_action_history' = deque_pop(dr_action_history)
            /\ dr_image' = Last(dr_action_history')
            /\ dr_displayed' = dr_image'
            /\ dr_log' = dr_logged("undo", TRUE, dr_is_drawing, dr_displayed, dr_image')
       ELSE /\ dr_log' = dr_logged("undo", FALSE, dr_is_drawing, dr_displayed, dr_displayed)
            /\ UNCHANGED <<dr_redo_history, dr_action_history, dr_image, dr_displayed>>
    /\ dr_actions' = dr_actions + 1
    /\ UNCHANGED <<dr_is_drawing, dr_start_coords, dr_erase_mode, dr_drawing_tool, dr_pressed>>
    /\ UNCHANGED notDR

\* <Control-y>
DrawingApp_redo ==
    /\ dr_actions < DrMaxActions
    /\ IF dr_redo_history # <<>>
       THEN /\ dr_image' = Last(dr_redo_history)
            /\ dr_redo_history' = deque_pop(dr_redo_history)
            /\ dr_action_history' = deque_append(dr_action_history, dr_image')
            /\ dr_displayed' = dr_image'
            /\ dr_log' = dr_logged("redo", TRUE, dr_is_drawing, dr_displayed, dr_image')
       ELSE /\ dr_log' = dr_logged("redo", FALSE, dr_is_drawing, dr_displayed, dr_displayed)
            /\ UNCHANGED <<dr_redo_history, dr_action_history, dr_image, dr_displayed>>
    /\ dr_actions' = dr_actions + 1
    /\ UNCHANGED <<dr_is_drawing, dr_start_coords, dr_erase_mode, dr_drawing_tool, dr_pressed>>
    /\ UNCHANGED notDR

NextDR ==
    \/ \E tool \in DrTools : DrawingApp_set_tool(tool)
    \/ DrawingApp_toggle_erase_mode
    \/ \E x \in DrPixels : DrawingApp_start_draw(x)
    \/ \E x \in DrPixels : DrawingApp_draw(x)
    \/ \E x \in DrPixels : DrawingApp_stop_draw(x)
    \/ DrawingApp_clear_all
    \/ DrawingApp_undo
    \/ DrawingApp_redo

\* C29: an undo that directly follows a completed stroke, shape or Clear
\* All puts the picture on the canvas that was there before that action
\* (the mouse button being up at the Clear All and at the undo, and no
\* handler having run inside the stroke).
C29_UndoRestoresPrevious ==
    \A k \in 2..Len(dr_log) :
        (/\ dr_log[k].op = "undo" /\ dr_log[k].done /\ ~dr_log[k].drawing
         /\ dr_log[k - 1].op \in {"stroke", "clear"} /\ ~dr_log[k - 1].drawing)
            => dr_log[k].after = dr_log[k - 1].before

\* C30: an undo that is possible and is directly followed by a redo leaves
\* the picture on the canvas as it was before the undo (the mouse button
\* being up at both).
C30_UndoRedoIsIdentity ==
    \A k \in 2..Len(dr_log) :
        (/\ dr_log[k].op = "redo" /\ ~dr_log[k].drawing
         /\ dr_log[k - 1].op = "undo" /\ dr_log[k - 1].done /\ ~dr_log[k - 1].drawing)
            => dr_log[k].after = dr_log[k - 1].before

(***************************************************************************)
(* Resize (resize.pyw): an AnimationWindow that starts one ResizeWorker    *)
(* thread per path.  A worker's finished signal is queued to the main      *)
(* thread.  os.path is posixpath here; with ntpath the separator that      *)
(* os.path.join inserts is a backslash.                                    *)
(***************************************************************************)
RsMaxPaths == 3

C21_NoPrefix == ""
DEFAULT_PREFIX == "resized_"
SUPPORTED_FORMATS == <<".png", ".jpg", ".jpeg", ".bmp", ".ico">>
EXIT_DELAY == 500

Lower(s) == OrgLowerStr(s)
EndsWith(s, suffix) ==
    Len(suffix) <= Len(s) /\ SubSeq(s, Len(s) - Len(suffix) + 1, Len(s)) = suffix
\* str.strip(chars)
RECURSIVE StripChars(_, _)
StripChars(s, chars) ==
    IF Len(s) > 0 /\ CharAt(s, 1) \in chars THEN StripChars(SubSeq(s, 2, Len(s)), chars)
    ELSE IF Len(s) > 0 /\ CharAt(s, Len(s)) \in chars THEN StripChars(SubSeq(s, 1, Len(s) - 1), chars)
    ELSE s
\* p.strip().strip('\'"')
rs_clean(p) == StripChars(Strip(p), {"'", "\""})

\* str.rfind(c) + 1: the position of the last c of s, 0 when there is none
RFind(s, c) ==
    IF \E k \in 1..Len(s) : CharAt(s, k) = c
    THEN CHOOSE k \in 1..Len(s) : CharAt(s, k) = c /\ \A j \in (k + 1)..Len(s) : CharAt(s, j) # c
    ELSE 0
RECURSIVE RStripCh(_, _)
RStripCh(s, c) ==
    IF Len(s) > 0 /\ CharAt(s, Len(s)) = c THEN RStripCh(SubSeq(s, 1, Len(s) - 1), c) ELSE s
os_path_dirname(p) ==
    LET head == SubSeq(p, 1, RFind(p, "/"))
    IN  IF head # "" /\ \E k \in 1..Len(head) : CharAt(head, k) # "/" THEN RStripCh(head, "/")
        ELSE head
os_path_basename(p) == SubSeq(p, RFind(p, "/") + 1, Len(p))
\* The extension starts at the last dot that follows the last separator and
\* a character of the name that is not a dot.
os_path_splitext(p) ==
    LET sep == RFind(p, "/")
        dot == RFind(p, ".")
    IN  IF dot > sep /\ \E k \in (sep + 1)..(dot - 1) : CharAt(p, k) # "."
        THEN [name |-> SubSeq(p, 1, dot - 1), ext |-> SubSeq(p, dot, Len(p))]
        ELSE [name |-> p, ext |-> ""]
os_path_join(a, b) ==
    IF Len(b) > 0 /\ CharAt(b, 1) = "/" THEN b
    ELSE IF a = "" \/ CharAt(a, Len(a)) = "/" THEN a \o b
    ELSE a \o "/" \o b

\* ---- the machine: the files that exist when the tool starts, those that
\* QPixmap can load and those that Image.open can read
RsFiles == {"d/a.png", "d/b.JPG", "d/c.txt", " d/e.png", "f.ico"}
RsPixmaps == {"d/a.png"}
RsImages == {"d/a.png", "d/b.JPG", " d/e.png"}
\* sys.argv[1:]
RsArgs == {"d/a.png", "'d/a.png'", "d/b.JPG", "d/c.txt", "\" d/e.png\"", "f.ico", "d/nope.png"}
RsArgLists == UNION {[1..n -> RsArgs] : n \in 0..RsMaxPaths}

rs_supported(input_path) ==
    \E k \in 1..Len(SUPPORTED_FORMATS) : EndsWith(Lower(input_path), SUPPORTED_FORMATS[k])
rs_output_path(input_path) ==
    LET directory == os_path_dirname(input_path)
        parts == os_path_splitext(os_path_basename(input_path))
    IN  os_path_join(directory, DEFAULT_PREFIX \o parts.name \o parts.ext)

InitRS ==
    /\ rs_argv \in RsArgLists
    /\ rs_pc = "start"
    /\ rs_fs = RsFiles
    /\ rs_all_file_paths = <<>>
    /\ rs_pending_file_paths = <<>>
    /\ rs_workers = <<>>
    /\ rs_active_workers = <<>>
    /\ rs_total_processed_count = 0
    /\ rs_events = <<>>
    /\ rs_anim = FALSE
    /\ rs_timers = <<>>
    /\ rs_runs = <<>>
    /\ rs_wait = 0

RestRS ==
    /\ rs_argv = <<>>
    /\ rs_pc = "start"
    /\ rs_fs = {}
    /\ rs_all_file_paths = <<>>
    /\ rs_pending_file_paths = <<>>
    /\ rs_workers = <<>>
    /\ rs_active_workers = <<>>
    /\ rs_total_processed_count = 0
    /\ rs_events = <<>>
    /\ rs_anim = FALSE
    /\ rs_timers = <<>>
    /\ rs_runs = <<>>
    /\ rs_wait = 0

\* ---- the main thread.  st holds the fields that process_next_image
\* changes: pending, workers, active, anim, timers.
start_worker_for_path(st, file_path) ==
    [st EXCEPT !.workers = Append(@, [file_path |-> file_path, state |-> "started"]),
               !.active = Append(@, Len(st.workers) + 1)]
RECURSIVE process_next_image(_)
process_next_image(st) ==
    IF st.pending = <<>>
    THEN IF st.active = <<>> THEN [st EXCEPT !.timers = Append(@, EXIT_DELAY)] ELSE st
    ELSE LET file_path == Head(st.pending)
             popped == [st EXCEPT !.pending = Tail(@)]
         IN  IF file_path \in RsPixmaps
             THEN start_worker_for_path([popped EXCEPT !.anim = TRUE], file_path)
             ELSE Only({process_next_image(started) :
                            started \in {start_worker_for_path(popped, file_path)}})
start_processing(st) ==
    IF st.pending = <<>> THEN [st EXCEPT !.timers = Append(@, 0)]
    ELSE process_next_image(st)

rs_state ==
    [pending |-> rs_pending_file_paths, workers |-> rs_workers, active |-> rs_active_workers,
     anim |-> rs_anim, timers |-> rs_timers]
rs_becomes(st) ==
    /\ rs_pending_file_paths' = st.pending
    /\ rs_workers' = st.workers
    /\ rs_active_workers' = st.active
    /\ rs_anim' = st.anim
    /\ rs_timers' = st.timers

\* __main__ without an argument (the else branch of len(sys.argv) > 1): the
\* usage text is printed and the process ends; there is no QApplication and
\* no AnimationWindow.
main_usage ==
    /\ rs_pc = "start"
    /\ Len(rs_argv) = 0
    /\ rs_pc' = "exited"
    /\ UNCHANGED <<rs_argv, rs_fs, rs_all_file_paths, rs_pending_file_paths, rs_workers,
                   rs_active_workers, rs_total_processed_count, rs_events, rs_anim, rs_timers,
                   rs_runs, rs_wait>>
    /\ UNCHANGED notRS

\* __main__ with arguments and AnimationWindow.__init__
AnimationWindow_init ==
    /\ rs_pc = "start"
    /\ Len(rs_argv) > 0
    /\ \E cleaned_paths \in {[k \in 1..Len(rs_argv) |-> rs_clean(rs_argv[k])]} :
       \E file_paths \in {SelectSeq(cleaned_paths, LAMBDA p : p \in rs_fs)} :
          /\ rs_all_file_paths' = file_paths
          /\ \E st \in {start_processing([rs_state EXCEPT !.pending = file_paths])} :
                 rs_becomes(st)
    /\ rs_pc' = "running"
    /\ UNCHANGED <<rs_argv, rs_fs, rs_total_processed_count, rs_events, rs_runs, rs_wait>>
    /\ UNCHANGED notRS

\* anim_group.finished -> process_next_image
anim_group_finished ==
    /\ rs_pc = "running"
    /\ rs_anim
    /\ \E st \in {process_next_image([rs_state EXCEPT !.anim = FALSE])} : rs_becomes(st)
    /\ UNCHANGED <<rs_argv, rs_pc, rs_fs, rs_all_file_paths, rs_total_processed_count,
                   rs_events, rs_runs, rs_wait>>
    /\ UNCHANGED notRS

\* ResizeWorker.run in its thread
ResizeWorker_run(id) ==
    /\ rs_pc # "exited"
    /\ id \in 1..Len(rs_workers)
    /\ rs_workers[id].state = "started"
    /\ \E input_path \in {rs_clean(rs_workers[id].file_path)} :
       \E skipped \in {input_path \notin rs_fs \/ ~rs_supported(input_path)} :
       \E output_path \in {rs_output_path(input_path)} :
       \E saved \in {~skipped /\ input_path \in RsImages} :
           /\ rs_fs' = IF saved THEN rs_fs \cup {output_path} ELSE rs_fs
           /\ rs_runs' = Append(rs_runs, [worker |-> id, input_path |-> input_path,
                                          existed |-> input_path \in rs_fs,
                                          wrote |-> IF saved THEN {output_path} ELSE {}])
    /\ rs_workers' = [rs_workers EXCEPT ![id].state = "finished"]
    /\ rs_events' = Append(rs_events, rs_workers[id].file_path)
    /\ UNCHANGED <<rs_argv, rs_pc, rs_all_file_paths, rs_pending_file_paths, rs_active_workers,
                   rs_total_processed_count, rs_anim, rs_timers, rs_wait>>
    /\ UNCHANGED notRS

\* The first active worker for file_path, 0 when there is none.
rs_first_worker(file_path) ==
    LET hits == {k \in 1..Len(rs_active_workers) :
                     rs_workers[rs_active_workers[k]].file_path = file_path}
    IN  IF hits = {} THEN 0 ELSE CHOOSE k \in hits : \A j \in hits : k <= j
C28_QuitAtEveryFinish(count) == Append(rs_timers, EXIT_DELAY)
rs_all_done(count) ==
    IF count = Len(rs_all_file_paths) THEN Append(rs_timers, EXIT_DELAY) ELSE rs_timers

\* on_worker_finished up to worker.wait(), and to its end when the worker
\* it waits for has finished
on_worker_finished ==
    /\ rs_pc = "running"
    /\ rs_events # <<>>
    /\ rs_events' = Tail(rs_events)
    /\ rs_total_processed_count' = rs_total_processed_count + 1
    /\ \E k \in {rs_first_worker(Head(rs_events))} :
          IF k = 0
          THEN /\ rs_timers' = rs_all_done(rs_total_processed_count + 1)
               /\ UNCHANGED <<rs_active_workers, rs_pc, rs_wait>>
          ELSE /\ rs_active_workers' = [j \in 1..(Len(rs_active_workers) - 1) |->
                                            rs_active_workers[IF j < k THEN j ELSE j + 1]]
               /\ IF rs_workers[rs_active_workers[k]].state = "finished"
                  THEN /\ rs_timers' = rs_all_done(rs_total_processed_count + 1)
                       /\ UNCHANGED <<rs_pc, rs_wait>>
                  ELSE /\ rs_pc' = "waiting"
                       /\ rs_wait' = rs_active_workers[k]
                       /\ UNCHANGED rs_timers
    /\ UNCHANGED <<rs_argv, rs_fs, rs_all_file_paths, rs_pending_file_paths, rs_workers,
                   rs_anim, rs_runs>>
    /\ UNCHANGED notRS

\* worker.wait() returns: the rest of on_worker_finished
on_worker_finished_waited ==
    /\ rs_pc = "waiting"
    /\ rs_workers[rs_wait].state = "finished"
    /\ rs_timers' = rs_all_done(rs_total_processed_count)
    /\ rs_pc' = "running"
    /\ rs_wait' = 0
    /\ UNCHANGED <<rs_argv, rs_fs, rs_all_file_paths, rs_pending_file_paths, rs_workers,
                   rs_active_workers, rs_total_processed_count, rs_events, rs_anim, rs_runs>>
    /\ UNCHANGED notRS

\* A QTimer.singleShot(delay, quit) fires: app.exec_() returns and the
\* process exits.
QApplication_quit ==
    /\ rs_pc = "running"
    /\ rs_timers # <<>>
    /\ rs_pc' = "exited"
    /\ UNCHANGED <<rs_argv, rs_fs, rs_all_file_paths, rs_pending_file_paths, rs_workers,
                   rs_active_workers, rs_total_processed_count, rs_events, rs_anim, rs_timers,
                   rs_runs, rs_wait>>
    /\ UNCHANGED notRS

NextRS ==
    \/ main_usage
    \/ AnimationWindow_init
    \/ anim_group_finished
    \/ \E id \in 1..RsMaxPaths : ResizeWorker_run(id)
    \/ on_worker_finished
    \/ on_worker_finished_waited
    \/ QApplication_quit

\* The claim's own terms, written without the worker's definitions: the
\* supported extensions, and dir/resized_name.ext for dir/name.ext.
C21_Supported == {".png", ".jpg", ".jpeg", ".bmp", ".ico"}
C21_Ext(p) == \E e \in C21_Supported : EndsWith(Lower(p), e)
C21_Resized(p) ==
    SubSeq(p, 1, RFind(p, "/")) \o "resized_" \o SubSeq(p, RFind(p, "/") + 1, Len(p))

\* C21: in every run of a ResizeWorker, the worker never writes to its
\* input path; for an existing input dir/name.ext with a supported
\* extension the only file it writes is dir/resized_name.ext; and for an
\* input that does not exist or has an unsupported extension it writes
\* nothing at all.
C21_OnlyResizedWritten ==
    \A k \in 1..Len(rs_runs) :
        LET r == rs_runs[k]
        IN  /\ r.input_path \notin r.wrote
            /\ r.wrote \subseteq {C21_Resized(r.input_path)}
            /\ (~r.existed \/ ~C21_Ext(r.input_path)) => r.wrote = {}
C21_Witness ==
    /\ \E k \in 1..Len(rs_runs) : rs_runs[k].wrote = {"d/resized_a.png"}
    /\ \E k \in 1..Len(rs_runs) : ~rs_runs[k].existed /\ rs_runs[k].wrote = {}
    /\ \E k \in 1..Len(rs_runs) : rs_runs[k].input_path = "d/c.txt" /\ rs_runs[k].wrote = {}

\* The threads run on, the event loop delivers every queued signal and the
\* card's animation ends.
FairRS ==
    /\ WF_vars(AnimationWindow_init)
    /\ WF_vars(anim_group_finished)
    /\ \A id \in 1..RsMaxPaths : WF_vars(ResizeWorker_run(id))
    /\ WF_vars(on_worker_finished)
    /\ WF_vars(on_worker_finished_waited)

\* C28: for every list of existing input paths that __main__ hands to the
\* AnimationWindow (the program was given at least one argument), duplicates
\* and images without a loadable preview included, the resizer starts
\* exactly one ResizeWorker per list entry, in the list's order, it schedules
\* the application's quit only when every entry has its worker and every
\* started worker has emitted finished, and it does schedule the quit in the
\* end.
C28_OneWorkerPerEntry ==
    rs_pc # "start" =>
        /\ Len(rs_workers) + Len(rs_pending_file_paths) = Len(rs_all_file_paths)
        /\ \A k \in 1..Len(rs_workers) : rs_workers[k].file_path = rs_all_file_paths[k]
C28_QuitAfterWorkers ==
    rs_timers # <<>> =>
        /\ Len(rs_workers) = Len(rs_all_file_paths)
        /\ \A k \in 1..Len(rs_workers) : rs_workers[k].state = "finished"
C28_WorkersThenQuit ==
    /\ [](C28_OneWorkerPerEntry /\ C28_QuitAfterWorkers)
    /\ (Len(rs_argv) > 0) => <>(rs_timers # <<>>)
C28_Witness ==
    /\ rs_timers # <<>>
    /\ Len(rs_workers) = RsMaxPaths
    /\ rs_workers[1].file_path = rs_workers[2].file_path
    /\ \E k \in 1..Len(rs_workers) : rs_workers[k].file_path \notin RsPixmaps
    /\ \E k \in 1..Len(rs_workers) : rs_workers[k].file_path \in RsPixmaps
\* ======================================================================
\* Specifications
\* ======================================================================

InitQueueYTC == InitYTC /\ RestYT /\ RestDLP /\ RestDL /\ RestUPP /\ RestUP /\ RestSH /\ RestIC /\ RestIM /\ RestUPL /\ RestORG /\ RestRS /\ RestICR /\ RestFIN /\ RestDR

InitWindowYT == RestYTC /\ InitYT /\ RestDLP /\ RestDL /\ RestUPP /\ RestUP /\ RestSH /\ RestIC /\ RestIM /\ RestUPL /\ RestORG /\ RestRS /\ RestICR /\ RestFIN /\ RestDR

SpecYTC == InitQueueYTC /\ [][NextYTC]_vars

SpecYT == InitWindowYT /\ [][NextYT]_vars

\* A DownloadWorker about to parse one line; the other tools at rest.
InitLineDLP == RestYTC /\ RestYT /\ InitDLP /\ RestDL /\ RestUPP /\ RestUP /\ RestSH /\ RestIC /\ RestIM /\ RestUPL /\ RestORG /\ RestRS /\ RestICR /\ RestFIN /\ RestDR

SpecDLP == InitLineDLP /\ [][NextDLP]_vars

\* The download window on a machine with any number of cores.
InitWindowDL == RestYTC /\ RestYT /\ RestDLP /\ InitDL /\ RestUPP /\ RestUP /\ RestSH /\ RestIC /\ RestIM /\ RestUPL /\ RestORG /\ RestRS /\ RestICR /\ RestFIN /\ RestDR

SpecDL == InitWindowDL /\ [][NextDL]_vars

\* A SendFileThread for a file or for a directory, before croc's first
\* progress line.
InitThreadUPP == RestYTC /\ RestYT /\ RestDLP /\ RestDL /\ InitUPP /\ RestUP /\ RestSH /\ RestIC /\ RestIM /\ RestUPL /\ RestORG /\ RestRS /\ RestICR /\ RestFIN /\ RestDR

SpecUPP == InitThreadUPP /\ [][NextUPP]_vars

\* The upload window after _deferred_init_data.
InitWindowUP == RestYTC /\ RestYT /\ RestDLP /\ RestDL /\ RestUPP /\ InitUP /\ RestSH /\ RestIC /\ RestIM /\ RestUPL /\ RestORG /\ RestRS /\ RestICR /\ RestFIN /\ RestDR

SpecUP == InitWindowUP /\ [][NextUP]_vars

\* The main thread's event loop keeps running, a started thread runs, every
\* croc process ends and the timer fires.
FairUP ==
    /\ WF_vars(up_handle_signal)
    /\ WF_vars(up_clear_all_cancel)
    /\ WF_vars(up_clear_all_wait)
    /\ WF_vars(up_clear_all_return)
    /\ WF_vars(QTimer_start_next_transfer)
    /\ \A id \in UpIds :
           /\ WF_vars(\E o \in {"spawned", "exception"} : SendFileThread_run_Popen(id, o))
           /\ WF_vars(\E o \in UpOutcomes : SendFileThread_run_wait(id, o))

\* The window that found a code in its settings file.
InitCodeUP == InitWindowUP /\ up_code # "None"

SpecUPS == InitCodeUP /\ [][NextUPS]_vars

SpecUPFair == InitCodeUP /\ [][NextUP]_vars /\ FairUP

\* Every started executor ends, and the main thread's event loop keeps
\* running.
FairYTC ==
    /\ WF_vars(DownloadQueue_on_download_finished)
    /\ \A i \in Items : WF_vars(\E o \in RunOutcomes : CommandExecutor_run(i, o))

SpecYTCFair == InitQueueYTC /\ [][NextYTC]_vars /\ FairYTC

\* One of the two iMShare tools, started by the user.
InitToolSH == RestYTC /\ RestYT /\ RestDLP /\ InitDL /\ RestUPP /\ InitUP /\ InitSH /\ RestIC /\ RestIM /\ RestUPL /\ RestORG /\ RestRS /\ RestICR /\ RestFIN /\ RestDR

SpecSH == InitToolSH /\ [][NextSH]_vars

\* A machine on which the tool has not been started yet.
InitMachineIC == RestYTC /\ RestYT /\ RestDLP /\ RestDL /\ RestUPP /\ RestUP /\ RestSH /\ InitIC /\ RestIM /\ RestUPL /\ RestORG /\ RestRS /\ RestICR /\ RestFIN /\ RestDR

SpecIC == InitMachineIC /\ [][NextIC]_vars

\* The uploader's window just constructed, with any clipboard.
InitWindowIM == RestYTC /\ RestYT /\ RestDLP /\ RestDL /\ RestUPP /\ RestUP /\ RestSH /\ RestIC /\ InitIM /\ RestUPL /\ RestORG /\ RestRS /\ RestICR /\ RestFIN /\ RestDR

\* The main thread's event loop keeps running, with its timers.
FairIM ==
    /\ WF_vars(ImgurUploader_handle_upload_complete)
    /\ WF_vars(ImgurUploader_close)
    /\ WF_vars(\E ok \in BOOLEAN : ImgurUploader_load_preview_image(ok))

SpecIM == InitWindowIM /\ [][NextIM]_vars /\ FairIM

\* A SendFileThread that has read one line of croc's output.
InitLineUPL == RestYTC /\ RestYT /\ RestDLP /\ RestDL /\ RestUPP /\ RestUP /\ RestSH /\ RestIC /\ RestIM /\ InitUPL /\ RestORG /\ RestRS /\ RestICR /\ RestFIN /\ RestDR

SpecUPL == InitLineUPL /\ [][NextUPL]_vars

\* One item of the pre-flight downloader, with any metadata.
InitItemPF == RestYTC /\ RestYT /\ RestDLP /\ RestDL /\ RestUPP /\ RestUP /\ RestSH /\ RestIC /\ RestIM /\ RestUPL /\ RestORG /\ RestRS /\ RestICR /\ InitPF /\ RestDR

SpecPF == InitItemPF /\ [][NextPF]_vars

\* The script with up to OrgMaxArgs arguments.
InitScriptORG == RestYTC /\ RestYT /\ RestDLP /\ RestDL /\ RestUPP /\ RestUP /\ RestSH /\ RestIC /\ RestIM /\ RestUPL /\ InitORG /\ RestRS /\ RestICR /\ RestFIN /\ RestDR

SpecORG == InitScriptORG /\ [][NextORG]_vars

\* The resizer started with up to RsMaxPaths arguments.
InitAppRS == RestYTC /\ RestYT /\ RestDLP /\ RestDL /\ RestUPP /\ RestUP /\ RestSH /\ RestIC /\ RestIM /\ RestUPL /\ RestORG /\ InitRS /\ RestICR /\ RestFIN /\ RestDR

SpecRS == InitAppRS /\ [][NextRS]_vars

\* IcrInstances instances of one tool started at the same time.
InitRaceICR == RestYTC /\ RestYT /\ RestDLP /\ RestDL /\ RestUPP /\ RestUP /\ RestSH /\ RestIC /\ RestIM /\ RestUPL /\ RestORG /\ RestRS /\ InitICR /\ RestFIN /\ RestDR

SpecICR == InitRaceICR /\ [][NextICR]_vars

\* One item of one of the three downloader variants, its thread started.
InitItemFIN == RestYTC /\ RestYT /\ RestDLP /\ RestDL /\ RestUPP /\ RestUP /\ RestSH /\ RestIC /\ RestIM /\ RestUPL /\ RestORG /\ RestRS /\ RestICR /\ InitEndFIN /\ RestDR

SpecFIN == InitItemFIN /\ [][NextFIN]_vars

\* The resizer started on a list of paths: an image with a preview, the same
\* image in quotes, an image without a loadable preview, a missing file.
RsFairArgs == {"d/a.png", "'d/a.png'", "d/b.JPG", "d/nope.png"}
InitFairRS == InitAppRS /\ \A k \in 1..Len(rs_argv) : rs_argv[k] \in RsFairArgs

SpecRSFair == InitFairRS /\ [][NextRS]_vars /\ FairRS

\* The overlay just opened, nothing drawn.
InitOverlayDR == RestYTC /\ RestYT /\ RestDLP /\ RestDL /\ RestUPP /\ RestUP /\ RestSH /\ RestIC /\ RestIM /\ RestUPL /\ RestORG /\ RestRS /\ RestICR /\ RestFIN /\ InitDR

SpecDR == InitOverlayDR /\ [][NextDR]_vars

====
